---- MODULE Spec2Model ----
(***************************************************************************)
(* The retrieval-augmented question-answering pipeline of the CardLens     *)
(* research terminal: ingestion of raw documents into the chunk store      *)
(* (src/ingest.py), the embedding index build and load                     *)
(* (src/embeddings.py), cosine-similarity retrieval (src/retrieval.py)     *)
(* and grounded answering (src/qa.py).                                     *)
(*                                                                         *)
(* A text is represented by its token sequence.  An embedding vector is a  *)
(* pair of integers; the embedding service returns vectors of one norm     *)
(* (the model's embeddings are unit vectors), scaled here to norm 5.       *)
(* A cosine score is held in hundredths.                                   *)
(***************************************************************************)
EXTENDS Integers, Sequences, FiniteSets, TLC

(***************************************************************************)
(* Bounds of the model.                                                    *)
(***************************************************************************)
\* chunk window and overlap, in tokens (CHUNK_TOKENS = 900 and
\* OVERLAP_TOKENS = 150 in src/ingest.py, scaled down to the model's texts)
CHUNK_TOKENS == 3
OVERLAP_TOKENS == 1
\* chunks per embedding call (BATCH_SIZE = 100 in src/embeddings.py, scaled
\* down so that a store of three chunks needs two calls)
BATCH_SIZE == 2
\* how many ingestion runs and index builds one behaviour performs
MaxIngests == 2
MaxBuilds == 2
\* the largest top_k a caller passes
MaxTopK == 3

\* a file of the data directory: absent, or present with its records
NoFile == [exists |-> FALSE, data |-> <<>>]
File(data) == [exists |-> TRUE, data |-> data]
\* Python's None for a page number; a known page n is <<n>>
NoPage == <<>>

Min(a, b) == IF a < b THEN a ELSE b

(***************************************************************************)
(* The raw directory.  FileNames lists the names a directory may hold in   *)
(* the order sorted() gives them; a directory is a set of positions of     *)
(* that list.  A .txt/.md file has one text, a .pdf one text per page      *)
(* (what extract_text() gives, already stripped; <<>> is a page without    *)
(* extractable text).                                                      *)
(***************************************************************************)
FileNames == <<"a.txt", "b.pdf", "c.csv", "d.md">>

Suffix(name) ==
    CASE name = "a.txt" -> ".txt"
      [] name = "b.pdf" -> ".pdf"
      [] name = "c.csv" -> ".csv"
      [] name = "d.md" -> ".md"

Pages(name) ==
    CASE name = "a.txt" -> << <<"t1", "t2", "t3", "t4">> >>
      [] name = "b.pdf" -> << <<"t5">>, <<>>, <<"t6", "t7">> >>
      [] name = "c.csv" -> << <<"t8">> >>
      [] name = "d.md" -> << <<"t9">> >>

RawDirs == {{}, {4}, {2, 3}, {1, 3, 4}}

\* sorted(raw_dir.iterdir()): the names of the directory in ascending order
RECURSIVE SortedNames(_, _)
SortedNames(dir, from) ==
    IF from > Len(FileNames) THEN <<>>
    ELSE (IF from \in dir THEN <<FileNames[from]>> ELSE <<>>)
         \o SortedNames(dir, from + 1)

(***************************************************************************)
(* _chunk_text: the window [start, end) slides by CHUNK_TOKENS -           *)
(* OVERLAP_TOKENS and the loop leaves with the first window that reaches   *)
(* the end of the tokens.                                                  *)
(***************************************************************************)
\* str(n) of a natural number, as the sequence of its decimal digits
RECURSIVE Str(_)
Str(n) ==
    LET digit == <<"0", "1", "2", "3", "4", "5", "6", "7", "8", "9">>[(n % 10) + 1]
    IN  IF n < 10 THEN <<digit>> ELSE Str(n \div 10) \o <<digit>>

\* the id that leaves the page out when it is not truthy
ChunkIdTruthyPage(filename, page, seq) ==
    IF page # NoPage /\ page # <<0>>
    THEN <<filename, "::p">> \o Str(page[1]) \o <<"::c">> \o Str(seq)
    ELSE <<filename, "::c">> \o Str(seq)

\* the id that names the file and the counter only
ChunkIdWithoutPage(filename, page, seq) == <<filename, "::c">> \o Str(seq)

\* the f-string of the chunk id, as the sequence of its pieces
ChunkId(filename, page, seq) ==
    IF page # NoPage THEN <<filename, "::p">> \o Str(page[1]) \o <<"::c">> \o Str(seq)
    ELSE <<filename, "::c">> \o Str(seq)

RECURSIVE ChunkLoop(_, _, _, _, _)
ChunkLoop(tokens, filename, page, chunk_id, start) ==
    IF ~(start < Len(tokens)) THEN <<>>
    ELSE LET end == Min(start + CHUNK_TOKENS, Len(tokens))
             chunk == [chunk_id |-> ChunkId(filename, page, chunk_id),
                       filename |-> filename,
                       page |-> page,
                       text |-> SubSeq(tokens, start + 1, end)]
         IN  IF end = Len(tokens) THEN <<chunk>>
             ELSE <<chunk>> \o ChunkLoop(tokens, filename, page, chunk_id + 1,
                                         start + CHUNK_TOKENS - OVERLAP_TOKENS)

ChunkText(text, filename, page) == ChunkLoop(text, filename, page, 0, 0)

\* _load_pdf: pages are numbered from 1, a page without text is skipped
RECURSIVE LoadPdfFrom(_, _)
LoadPdfFrom(name, page_num) ==
    IF page_num > Len(Pages(name)) THEN <<>>
    ELSE (IF Pages(name)[page_num] = <<>> THEN <<>>
          ELSE ChunkText(Pages(name)[page_num], name, <<page_num>>))
         \o LoadPdfFrom(name, page_num + 1)

LoadPdf(name) == LoadPdfFrom(name, 1)

\* _load_text
LoadText(name) ==
    IF Pages(name)[1] # <<>> THEN ChunkText(Pages(name)[1], name, NoPage) ELSE <<>>

\* the chunks ingest_all takes from one directory entry
FileChunks(name) ==
    IF Suffix(name) = ".pdf" THEN LoadPdf(name)
    ELSE IF Suffix(name) \in {".txt", ".md"} THEN LoadText(name)
    ELSE <<>>

\* int() of a decimal numeral, the inverse of str
RECURSIVE Num(_)
Num(digits) ==
    IF digits = <<>> THEN 0
    ELSE 10 * Num(SubSeq(digits, 1, Len(digits) - 1))
         + (CHOOSE n \in 0..9 : Str(n) = <<digits[Len(digits)]>>)

\* json.dumps of a chunk: one line, the members in the order of the dict's
\* keys, each value in its JSON text (a page as its numeral or as null)
Dumps(chunk) ==
    << <<"chunk_id", chunk.chunk_id>>,
       <<"filename", <<chunk.filename>> >>,
       <<"page", IF chunk.page = NoPage THEN <<"null">> ELSE Str(chunk.page[1])>>,
       <<"text", chunk.text>> >>

\* the value of a member of a JSON object
Member(line, key) == line[CHOOSE n \in DOMAIN line : line[n][1] = key][2]

\* json.loads of a line of the chunk store
Loads(line) ==
    [chunk_id |-> Member(line, "chunk_id"),
     filename |-> Member(line, "filename")[1],
     page |-> IF Member(line, "page") = <<"null">> THEN NoPage
              ELSE <<Num(Member(line, "page"))>>,
     text |-> Member(line, "text")]

\* the lines ingest_all writes for a list of chunks
JsonLines(cs) == [n \in DOMAIN cs |-> Dumps(cs[n])]

\* load_chunks: no file gives no chunks, a blank line is passed over
LoadChunks(file) ==
    IF ~file.exists THEN <<>>
    ELSE LET lines == SelectSeq(file.data, LAMBDA line : line # <<>>)
         IN  [n \in DOMAIN lines |-> Loads(lines[n])]

(***************************************************************************)
(* Vectors and the float32 matrix.                                         *)
(***************************************************************************)
\* the vectors the embedding service answers with
Vecs == {<<5, 0>>, <<3, 4>>}
\* the vectors it answers a query with
QueryVecs == {<<5, 0>>, <<0, 5>>}
\* the vectors of the rows of an index at rest
IndexVecs == {<<5, 0>>, <<3, 4>>, <<0, 5>>, <<-5, 0>>}

Abs(x) == IF x < 0 THEN -x ELSE x

\* np.float32 of a number: 24 bits of significand, so an integer below 2^24
\* is kept and a larger one is rounded to the float32 grid (ties to even)
Float32(x) ==
    IF Abs(x) <= 2^24 THEN x
    ELSE LET lo == (x \div 2) * 2
         IN  IF x = lo THEN x
             ELSE IF (lo \div 2) % 2 = 0 THEN lo ELSE lo + 2

\* np.array(vectors, dtype=np.float32)
AsFloat32(vectors) ==
    [i \in DOMAIN vectors |-> [j \in DOMAIN vectors[i] |-> Float32(vectors[i][j])]]

\* the metadata entry build_index keeps of a chunk
MetaOf(c) ==
    [chunk_id |-> c.chunk_id, filename |-> c.filename, page |-> c.page, text |-> c.text]

(***************************************************************************)
(* retrieve: scores, ranking and the result records.                       *)
(***************************************************************************)
Dot(a, b) == a[1] * b[1] + a[2] * b[2]

\* the Euclidean norm (the model's vectors have whole norms)
Norm(v) == CHOOSE n \in 0..(Abs(v[1]) + Abs(v[2])) : n * n = Dot(v, v)

\* cosine_similarity(q_vec, arr)[0], in hundredths
CosineSimilarity(q, arr) ==
    [i \in DOMAIN arr |-> (100 * Dot(q, arr[i])) \div (Norm(q) * Norm(arr[i]))]

IndexOrders(n) == {p \in [1..n -> 1..n] : \A i, j \in 1..n : p[i] = p[j] => i = j}

\* an index order that puts the scores in descending order
ArgSortsDescending(scores) ==
    {p \in IndexOrders(Len(scores)) :
        \A i, j \in 1..Len(scores) : i < j => scores[p[i]] >= scores[p[j]]}

\* np.argsort(scores): an index order that puts the scores in ascending
\* order.  The default kind is quicksort, which is not stable: any order of
\* equal scores may come out.
ArgSorts(scores) ==
    {p \in IndexOrders(Len(scores)) :
        \A i, j \in 1..Len(scores) : i < j => scores[p[i]] <= scores[p[j]]}

\* order[:top_k], the reversal forgotten
TopIndicesUnreversed(order, k) ==
    [i \in 1..Min(k, Len(order)) |-> order[i]]

\* order[::-1][:top_k]
TopIndices(order, k) ==
    [i \in 1..Min(k, Len(order)) |-> order[Len(order) + 1 - i]]

\* SOURCE_META, the display metadata of the committed documents
SOURCE_META ==
    [f \in {"a.txt"} |-> [title |-> "Agent Suite Launch", url |-> "https://a"]]

SourceTitle(filename) ==
    IF filename \in DOMAIN SOURCE_META THEN SOURCE_META[filename].title ELSE filename

SourceUrl(filename) ==
    IF filename \in DOMAIN SOURCE_META THEN SOURCE_META[filename].url ELSE ""

\* the label made from the raw filename whatever the table holds
CitationRawFilename(m) ==
    LET page_str == IF m.page # NoPage THEN <<" p.">> \o Str(m.page[1]) ELSE <<>>
    IN  <<"[", m.filename>> \o page_str \o <<"]">>

\* the f-string of the citation label, as the sequence of its pieces
Citation(m) ==
    LET page_str == IF m.page # NoPage THEN <<" p.">> \o Str(m.page[1]) ELSE <<>>
    IN  <<"[", SourceTitle(m.filename)>> \o page_str \o <<"]">>

\* the result dict of the entry with index idx
ResultOf(m, score) ==
    [chunk_id |-> m.chunk_id, filename |-> m.filename, page |-> m.page,
     text |-> m.text, score |-> score, citation |-> Citation(m),
     source_title |-> SourceTitle(m.filename), source_url |-> SourceUrl(m.filename)]

\* the loop over top_indices
Results(indices, metas, scores) ==
    [i \in DOMAIN indices |-> ResultOf(metas[indices[i]], scores[indices[i]])]

(***************************************************************************)
(* answer_question: the prompt and the result.                             *)
(***************************************************************************)
SYSTEM_PROMPT == "system policy"
KeyMissingAnswer == <<"OpenAI API key not configured.">>

\* the dict answer_question returns; NoResult before it has returned
NoResult == [returned |-> FALSE]

\* excerpts_text: one tagged excerpt per chunk, numbered from 1, or the
\* sentence saying there is none; a string is the sequence of its pieces
RECURSIVE ExcerptsFrom(_, _)
ExcerptsFrom(cs, i) ==
    IF i > Len(cs) THEN <<>>
    ELSE <<"\n--- Excerpt ">> \o Str(i) \o <<" ">> \o cs[i].citation \o <<" ---\n">>
         \o cs[i].text \o <<"\n">> \o ExcerptsFrom(cs, i + 1)

ExcerptsText(cs) ==
    IF cs # <<>> THEN ExcerptsFrom(cs, 1)
    ELSE <<"No case document excerpts are available.">>

UserMsg(cs, q) ==
    <<"Case document excerpts for context:\n">> \o ExcerptsText(cs)
    \o <<"\n\nQuestion: ", q, "\n\n",
         "Answer strictly from the excerpts above. Cite sources explicitly.">>

\* the prior turns put after the question
MessagesHistoryLast(cs, q, hist) ==
    <<[role |-> "system", content |-> <<SYSTEM_PROMPT>>]>>
    \o <<[role |-> "user", content |-> UserMsg(cs, q)]>>
    \o [i \in DOMAIN hist |-> [role |-> hist[i].role, content |-> hist[i].content]]

\* system, then the prior turns, then the question with its context
Messages(cs, q, hist) ==
    <<[role |-> "system", content |-> <<SYSTEM_PROMPT>>]>>
    \o [i \in DOMAIN hist |-> [role |-> hist[i].role, content |-> hist[i].content]]
    \o <<[role |-> "user", content |-> UserMsg(cs, q)]>>

\* the excerpts list of the result
Excerpts(cs) ==
    [i \in DOMAIN cs |->
        [citation |-> cs[i].citation, source_title |-> cs[i].source_title,
         source_url |-> cs[i].source_url, text |-> cs[i].text, score |-> cs[i].score]]

CitationSet(cs) == {cs[i].citation : i \in DOMAIN cs}

\* list({c["citation"] for c in chunks}): the labels without repetition, in
\* the order the set happens to iterate
CitationLists(cs) ==
    {l \in [1..Cardinality(CitationSet(cs)) -> CitationSet(cs)] :
        \A i, j \in DOMAIN l : l[i] = l[j] => i = j}

\* str.strip() of the model's text
RECURSIVE LStrip(_)
LStrip(t) == IF t # <<>> /\ Head(t) = " " THEN LStrip(Tail(t)) ELSE t
RECURSIVE RStrip(_)
RStrip(t) ==
    IF t # <<>> /\ t[Len(t)] = " " THEN RStrip(SubSeq(t, 1, Len(t) - 1)) ELSE t
Strip(t) == RStrip(LStrip(t))

\* what callers ask and what the services may answer
Questions == {"q1"}
Histories ==
    {<<>>, <<[role |-> "user", content |-> <<"q0">>],
             [role |-> "assistant", content |-> <<"a0">>]>>}
ChatTexts == {<<"o", "k", " ">>, <<" ">>}

(***************************************************************************)
(* State.                                                                  *)
(***************************************************************************)
VARIABLES
    rawDir,        \* ingest_all: raw_dir, a set of positions of FileNames
    chunksFile,    \* data/processed/chunks.jsonl
    embFile,       \* data/index/embeddings.npz
    metaFile,      \* data/index/meta.json
    indexDir,      \* whether data/index exists
    apiKey,        \* whether OPENAI_API_KEY is set
    embGen,        \* the build that wrote embFile (0: none)
    metaGen,       \* the build that wrote metaFile (0: none)
    ipc,           \* ingest_all: position
    iqueue,        \* ingest_all: the directory entries still to visit
    icount,        \* ingest_all: count
    nIngest,       \* ingestion runs started
    bpc,           \* build_index: position
    bchunks,       \* build_index: chunks
    bi,            \* build_index: i
    all_vectors,   \* build_index: all_vectors
    meta,          \* build_index: meta
    bret,          \* build_index: the value returned
    nBuild,        \* index builds started
    bOldEmb,       \* embFile when the running build started
    bOldMeta,      \* metaFile when the running build started
    bOldDir,       \* indexDir when the running build started
    bCalls,        \* the texts of each embedding call of the running build
    bAnswers,      \* the vectors each of those calls returned
    qpc,           \* answer_question: position
    question,      \* answer_question: question
    top_k,         \* answer_question: top_k
    history,       \* answer_question: history
    larr,          \* load_index: arr (NoFile is None)
    lmeta,         \* load_index: meta
    larrGen,       \* the build that wrote what arr was read from
    lmetaGen,      \* the build that wrote what meta was read from
    q_vec,         \* retrieve: q_vec
    top_indices,   \* retrieve: top_indices
    chunks,        \* answer_question: chunks, the list retrieve returned
    result,        \* answer_question: the dict returned
    qEmbeds,       \* embedding calls of the running answer_question
    sent,          \* the message lists given to the chat client by it
    page,          \* the chat page the session has open
    chat_history,  \* st.session_state.chat_history
    hpc,           \* the page's question handler: position
    slider,        \* 6_QA_Chat: top_k, the value of the settings slider
    shown,         \* the result the handler rendered last
    csize,         \* the chunker's configuration: CHUNK_TOKENS
    coverlap,      \* the chunker's configuration: OVERLAP_TOKENS
    cpc,           \* _chunk_text: position
    ctokens,       \* _chunk_text: tokens
    cfile,         \* _chunk_text: filename
    cpage,         \* _chunk_text: page
    cstart,        \* _chunk_text: start
    cnum,          \* _chunk_text: chunk_id, the counter
    cout,          \* the chunks _chunk_text has yielded
    spc,           \* 6_Sources.py: position of the Rebuild Index handler
    runs,          \* what each finished run of that handler left behind
    dpc,           \* _load_pdf / _load_text: position
    dname,         \* the loader: path.name
    dpages,        \* the loader: the texts of the pages (one for a text file)
    dnum,          \* _load_pdf: page_num
    dout,          \* the chunks the loader has yielded
    bsize          \* the build's configuration: BATCH_SIZE

fileVars == <<chunksFile, embFile, metaFile, indexDir, embGen, metaGen>>
ingestVars == <<rawDir, ipc, iqueue, icount, nIngest>>
buildVars == <<bpc, bchunks, bi, all_vectors, meta, bret, nBuild,
               bOldEmb, bOldMeta, bOldDir, bCalls, bAnswers>>
queryVars == <<qpc, question, top_k, history, larr, lmeta, larrGen, lmetaGen,
               q_vec, top_indices, chunks, result, qEmbeds, sent>>
chatVars == <<page, chat_history, hpc, slider, shown>>
chunkerVars == <<csize, coverlap, cpc, ctokens, cfile, cpage, cstart, cnum, cout>>
sourcesVars == <<spc, runs>>
loaderVars == <<dpc, dname, dpages, dnum, dout>>
\* the variables of the processes modelled after the Sources page
auxVars == <<loaderVars, bsize>>
envVars == <<apiKey, chatVars, chunkerVars, sourcesVars, auxVars>>
vars == <<fileVars, ingestVars, buildVars, envVars, queryVars>>

\* no chat page is open
NoSession ==
    /\ page = "none"
    /\ chat_history = <<>>
    /\ hpc = "idle"
    /\ slider = 0
    /\ shown = [returned |-> FALSE]

\* no call of _chunk_text is being followed; the configuration is the
\* module's
NoChunking ==
    /\ csize = CHUNK_TOKENS
    /\ coverlap = OVERLAP_TOKENS
    /\ cpc = "idle"
    /\ ctokens = <<>>
    /\ cfile = ""
    /\ cpage = NoPage
    /\ cstart = 0
    /\ cnum = 0
    /\ cout = <<>>

\* the Rebuild Index button has not been pressed
NoRebuild ==
    /\ spc = "idle"
    /\ runs = <<>>

\* no loader call is being followed
NoLoading ==
    /\ dpc = "idle"
    /\ dname = ""
    /\ dpages = <<>>
    /\ dnum = 0
    /\ dout = <<>>

\* nothing has run yet: no chunk store, no index
Fresh ==
    /\ rawDir = {}
    /\ chunksFile = NoFile
    /\ embFile = NoFile
    /\ metaFile = NoFile
    /\ indexDir = FALSE
    /\ apiKey \in BOOLEAN
    /\ NoSession
    /\ NoChunking
    /\ NoRebuild
    /\ NoLoading
    /\ embGen = 0
    /\ metaGen = 0
    /\ ipc = "idle"
    /\ iqueue = <<>>
    /\ icount = 0
    /\ nIngest = 0
    /\ bpc = "idle"
    /\ bchunks = <<>>
    /\ bi = 0
    /\ all_vectors = <<>>
    /\ meta = <<>>
    /\ bret = 0
    /\ nBuild = 0
    /\ bOldEmb = NoFile
    /\ bOldMeta = NoFile
    /\ bOldDir = FALSE
    /\ bCalls = <<>>
    /\ bAnswers = <<>>
    /\ qpc = "idle"
    /\ question = "q1"
    /\ top_k = 1
    /\ history = <<>>
    /\ larr = NoFile
    /\ lmeta = <<>>
    /\ larrGen = 0
    /\ lmetaGen = 0
    /\ q_vec = <<>>
    /\ top_indices = <<>>
    /\ chunks = <<>>
    /\ result = NoResult
    /\ qEmbeds = 0
    /\ sent = <<>>

Init ==
    /\ Fresh
    /\ bsize = BATCH_SIZE

(***************************************************************************)
(* ingest_all: open the store for writing (which empties it), visit the    *)
(* directory in sorted order, write one line per chunk, close.             *)
(***************************************************************************)
\* ingest_all listing the directory in the order the system gives
IngestOpenUnsorted ==
    /\ ipc = "idle"
    /\ nIngest < MaxIngests
    /\ nIngest' = nIngest + 1
    /\ chunksFile' = File(<<>>)
    /\ \E raw_dir \in RawDirs :
          /\ rawDir' = raw_dir
          /\ \E p \in IndexOrders(Len(SortedNames(raw_dir, 1))) :
                iqueue' = [n \in DOMAIN p |-> SortedNames(raw_dir, 1)[p[n]]]
    /\ icount' = 0
    /\ ipc' = "loop"
    /\ UNCHANGED <<embFile, metaFile, indexDir, embGen, metaGen, buildVars, envVars, queryVars>>

\* the store opened for appending
IngestOpenAppending ==
    /\ ipc = "idle"
    /\ nIngest < MaxIngests
    /\ nIngest' = nIngest + 1
    /\ chunksFile' = File(chunksFile.data)
    /\ \E raw_dir \in RawDirs :
          /\ rawDir' = raw_dir
          /\ iqueue' = SortedNames(raw_dir, 1)
    /\ icount' = 0
    /\ ipc' = "loop"
    /\ UNCHANGED <<embFile, metaFile, indexDir, embGen, metaGen, buildVars, envVars, queryVars>>

IngestOpen ==
    /\ ipc = "idle"
    /\ nIngest < MaxIngests
    /\ nIngest' = nIngest + 1
    /\ chunksFile' = File(<<>>)
    /\ \E raw_dir \in RawDirs :
          /\ rawDir' = raw_dir
          /\ iqueue' = SortedNames(raw_dir, 1)
    /\ icount' = 0
    /\ ipc' = "loop"
    /\ UNCHANGED <<embFile, metaFile, indexDir, embGen, metaGen, buildVars, envVars, queryVars>>

IngestFile ==
    /\ ipc = "loop"
    /\ iqueue # <<>>
    /\ LET cs == FileChunks(Head(iqueue))
       IN  /\ chunksFile' = File(chunksFile.data \o JsonLines(cs))
           /\ icount' = icount + Len(cs)
    /\ iqueue' = Tail(iqueue)
    /\ UNCHANGED <<embFile, metaFile, indexDir, embGen, metaGen, rawDir, ipc, nIngest,
                   buildVars, envVars, queryVars>>

IngestReturn ==
    /\ ipc = "loop"
    /\ iqueue = <<>>
    /\ ipc' = "idle"
    /\ UNCHANGED <<fileVars, rawDir, iqueue, icount, nIngest, buildVars, envVars, queryVars>>

\* ingest.py lines 70-74: reading or parsing the next source file raises
\* (PdfReader, extract_text or read_text); the with block closes the store
\* with what was written before, and the exception leaves ingest_all
IngestFail ==
    /\ ipc = "loop"
    /\ iqueue # <<>>
    /\ Suffix(Head(iqueue)) \in {".pdf", ".txt", ".md"}
    /\ ipc' = "raised"
    /\ UNCHANGED <<fileVars, rawDir, iqueue, icount, nIngest, buildVars, envVars, queryVars>>

(***************************************************************************)
(* build_index.                                                            *)
(***************************************************************************)
\* chunks[i : i + BATCH_SIZE]
Batch(cs, i) == SubSeq(cs, i + 1, Min(i + bsize, Len(cs)))

\* [c["text"] for c in batch]
Texts(batch) == [k \in DOMAIN batch |-> batch[k].text]

\* the entries of a batch appended last to first
BatchMetaReversed(batch) ==
    [k \in DOMAIN batch |-> MetaOf(batch[Len(batch) + 1 - k])]

\* the entries the loop body appends to meta for one batch
BatchMeta(batch) == [k \in DOMAIN batch |-> MetaOf(batch[k])]

\* the build without its early return on an empty store
BuildStartNoEmptyReturn ==
    /\ bpc = "idle"
    /\ nBuild < MaxBuilds
    /\ nBuild' = nBuild + 1
    /\ bchunks' = LoadChunks(chunksFile)
    /\ bOldEmb' = embFile
    /\ bOldMeta' = metaFile
    /\ bOldDir' = indexDir
    /\ bi' = 0
    /\ all_vectors' = <<>>
    /\ meta' = <<>>
    /\ bCalls' = <<>>
    /\ bAnswers' = <<>>
    /\ bpc' = "loop"
    /\ bret' = 0
    /\ indexDir' = TRUE
    /\ UNCHANGED <<chunksFile, embFile, metaFile, embGen, metaGen, ingestVars, envVars,
                   queryVars>>

\* lines 34-39: read the store; an empty one returns 0 at once, otherwise
\* the index directory is made and the client created
BuildStart ==
    /\ bpc = "idle"
    /\ nBuild < MaxBuilds
    /\ nBuild' = nBuild + 1
    /\ bchunks' = LoadChunks(chunksFile)
    /\ bOldEmb' = embFile
    /\ bOldMeta' = metaFile
    /\ bOldDir' = indexDir
    /\ bi' = 0
    /\ all_vectors' = <<>>
    /\ meta' = <<>>
    /\ bCalls' = <<>>
    /\ bAnswers' = <<>>
    /\ IF LoadChunks(chunksFile) = <<>>
       THEN /\ bpc' = "returned"
            /\ bret' = 0
            /\ UNCHANGED indexDir
       ELSE /\ bpc' = "loop"
            /\ bret' = 0
            /\ indexDir' = TRUE
    /\ UNCHANGED <<chunksFile, embFile, metaFile, embGen, metaGen, ingestVars, envVars, queryVars>>

\* the loop stepping by the shipped batch size whatever the batches' size
EmbedBatchFixedStride ==
    /\ bpc = "loop"
    /\ apiKey
    /\ LET batch == Batch(bchunks, bi)
       IN  \E vectors \in [DOMAIN batch -> Vecs] :
              /\ all_vectors' = all_vectors \o vectors
              /\ meta' = meta \o BatchMeta(batch)
              /\ bCalls' = Append(bCalls, Texts(batch))
              /\ bAnswers' = Append(bAnswers, vectors)
    /\ bi' = bi + BATCH_SIZE
    /\ bpc' = IF bi + BATCH_SIZE < Len(bchunks) THEN "loop" ELSE "savez"
    /\ UNCHANGED <<fileVars, ingestVars, bchunks, bret, nBuild, bOldEmb, bOldMeta,
                   bOldDir, envVars, queryVars>>

\* lines 44-57, one turn of the loop whose embedding call answers: the
\* service gives one vector per text, in the order of the texts
EmbedBatch ==
    /\ bpc = "loop"
    /\ apiKey
    /\ LET batch == Batch(bchunks, bi)
       IN  \E vectors \in [DOMAIN batch -> Vecs] :
              /\ all_vectors' = all_vectors \o vectors
              /\ meta' = meta \o BatchMeta(batch)
              /\ bCalls' = Append(bCalls, Texts(batch))
              /\ bAnswers' = Append(bAnswers, vectors)
    /\ bi' = bi + bsize
    /\ bpc' = IF bi + bsize < Len(bchunks) THEN "loop" ELSE "savez"
    /\ UNCHANGED <<fileVars, ingestVars, bchunks, bret, nBuild, bOldEmb, bOldMeta,
                   bOldDir, envVars, queryVars>>

\* a build that saves the rows it has when the embedding call raises
EmbedFailSavingRows ==
    /\ bpc = "loop"
    /\ bCalls' = Append(bCalls, Texts(Batch(bchunks, bi)))
    /\ bpc' = "raised"
    /\ embFile' = File(AsFloat32(all_vectors))
    /\ embGen' = nBuild
    /\ UNCHANGED <<chunksFile, metaFile, indexDir, metaGen, ingestVars, bchunks, bi,
                   all_vectors, meta, bret, nBuild, bOldEmb, bOldMeta, bOldDir,
                   bAnswers, envVars, queryVars>>

\* line 47 raising (network, quota, or no valid credential): build_index
\* has no handler, the error leaves it
EmbedFail ==
    /\ bpc = "loop"
    /\ bCalls' = Append(bCalls, Texts(Batch(bchunks, bi)))
    /\ bpc' = "raised"
    /\ UNCHANGED <<fileVars, ingestVars, bchunks, bi, all_vectors, meta, bret, nBuild,
                   bOldEmb, bOldMeta, bOldDir, bAnswers, envVars, queryVars>>

\* lines 59-60: the matrix is written first
SaveMatrix ==
    /\ bpc = "savez"
    /\ embFile' = File(AsFloat32(all_vectors))
    /\ embGen' = nBuild
    /\ bpc' = "write_meta"
    /\ UNCHANGED <<chunksFile, metaFile, indexDir, metaGen, ingestVars, bchunks, bi,
                   all_vectors, meta, bret, nBuild, bOldEmb, bOldMeta, bOldDir,
                   bCalls, bAnswers, envVars, queryVars>>

\* a build that appends its entries to the metadata already on disk
WriteMetaMerging ==
    /\ bpc = "write_meta"
    /\ metaFile' = File(metaFile.data \o meta)
    /\ metaGen' = nBuild
    /\ bret' = Len(meta)
    /\ bpc' = "returned"
    /\ UNCHANGED <<chunksFile, embFile, indexDir, embGen, ingestVars, bchunks, bi,
                   all_vectors, meta, nBuild, bOldEmb, bOldMeta, bOldDir,
                   bCalls, bAnswers, envVars, queryVars>>

\* lines 61-62: then the metadata, and the count is returned
WriteMeta ==
    /\ bpc = "write_meta"
    /\ metaFile' = File(meta)
    /\ metaGen' = nBuild
    /\ bret' = Len(meta)
    /\ bpc' = "returned"
    /\ UNCHANGED <<chunksFile, embFile, indexDir, embGen, ingestVars, bchunks, bi,
                   all_vectors, meta, nBuild, bOldEmb, bOldMeta, bOldDir,
                   bCalls, bAnswers, envVars, queryVars>>

\* the call is over; its locals are gone
BuildEnd ==
    /\ bpc \in {"returned", "raised"}
    /\ bpc' = "idle"
    /\ bchunks' = <<>>
    /\ bi' = 0
    /\ all_vectors' = <<>>
    /\ meta' = <<>>
    /\ bret' = 0
    /\ bOldEmb' = NoFile
    /\ bOldMeta' = NoFile
    /\ bOldDir' = FALSE
    /\ bCalls' = <<>>
    /\ bAnswers' = <<>>
    /\ UNCHANGED <<fileVars, ingestVars, nBuild, envVars, queryVars>>

(***************************************************************************)
(* answer_question -> retrieve -> load_index.                              *)
(***************************************************************************)
\* the dict with the no_index flag never set
AnswerResultFlagUnset(answer, citations, cs) ==
    [returned |-> TRUE, answer |-> answer, citations |-> citations,
     excerpts |-> Excerpts(cs), no_index |-> FALSE]

\* the dict of lines 68-82 and 101-115
AnswerResult(answer, citations, cs) ==
    [returned |-> TRUE, answer |-> answer, citations |-> citations,
     excerpts |-> Excerpts(cs), no_index |-> (cs = <<>>)]

\* the call, down to load_index's test that both files exist.  The two
\* exists() calls are one step: no file of the index is ever removed, so
\* what they see together is what the later of them sees.
AskStart(q, k, h) ==
    /\ qpc = "idle"
    /\ question' = q
    /\ top_k' = k
    /\ history' = h
    /\ qpc' = IF ~embFile.exists \/ ~metaFile.exists THEN "loaded" ELSE "read_arr"
    /\ larr' = NoFile
    /\ lmeta' = <<>>
    /\ UNCHANGED <<fileVars, ingestVars, buildVars, envVars, larrGen, lmetaGen, q_vec,
                   top_indices, chunks, result, qEmbeds, sent>>

\* embeddings.py lines 69-70
ReadArr ==
    /\ qpc = "read_arr"
    /\ larr' = embFile
    /\ larrGen' = embGen
    /\ qpc' = "read_meta"
    /\ UNCHANGED <<fileVars, ingestVars, buildVars, envVars, question, top_k, history,
                   lmeta, lmetaGen, q_vec, top_indices, chunks, result, qEmbeds, sent>>

\* embeddings.py lines 71-72
ReadMeta ==
    /\ qpc = "read_meta"
    /\ lmeta' = metaFile.data
    /\ lmetaGen' = metaGen
    /\ qpc' = "loaded"
    /\ UNCHANGED <<fileVars, ingestVars, buildVars, envVars, question, top_k, history,
                   larr, larrGen, q_vec, top_indices, chunks, result, qEmbeds, sent>>

\* the guard without its test of the metadata
IndexEmptyArrOnly == ~larr.exists

\* retrieval.py lines 51-52
IndexEmpty == ~larr.exists \/ Len(lmeta) = 0

RetrieveEmpty ==
    /\ qpc = "loaded"
    /\ IndexEmpty
    /\ chunks' = <<>>
    /\ qpc' = "retrieved"
    /\ UNCHANGED <<fileVars, ingestVars, buildVars, envVars, question, top_k, history,
                   larr, lmeta, larrGen, lmetaGen, q_vec, top_indices, result,
                   qEmbeds, sent>>

\* retrieval.py line 54 raising: retrieve and answer_question have no handler
EmbedQueryFail ==
    /\ qpc = "loaded"
    /\ ~IndexEmpty
    /\ qEmbeds' = qEmbeds + 1
    /\ qpc' = "raised"
    /\ UNCHANGED <<fileVars, ingestVars, buildVars, envVars, question, top_k, history,
                   larr, lmeta, larrGen, lmetaGen, q_vec, top_indices, chunks, result,
                   sent>>

\* retrieval.py lines 54-78: embed the query, score every row, rank, and
\* build the results; meta[idx] raises IndexError past the end of meta
RetrieveRank ==
    /\ qpc = "loaded"
    /\ ~IndexEmpty
    /\ apiKey
    /\ qEmbeds' = qEmbeds + 1
    /\ \E v \in QueryVecs :
          LET q == AsFloat32(<<v>>)[1]
              scores == CosineSimilarity(q, larr.data)
          IN  \E order \in ArgSorts(scores) :
                 LET indices == TopIndices(order, top_k)
                 IN  /\ q_vec' = q
                     /\ top_indices' = indices
                     /\ IF \E i \in DOMAIN indices : indices[i] > Len(lmeta)
                        THEN /\ qpc' = "raised"
                             /\ UNCHANGED chunks
                        ELSE /\ qpc' = "retrieved"
                             /\ chunks' = Results(indices, lmeta, scores)
    /\ UNCHANGED <<fileVars, ingestVars, buildVars, envVars, question, top_k, history,
                   larr, lmeta, larrGen, lmetaGen, result, sent>>

\* the credential test placed after the chat request
AnswerNoKeyAfterChat ==
    /\ qpc = "retrieved"
    /\ ~apiKey
    /\ sent' = Append(sent, Messages(chunks, question, history))
    /\ \E citations \in CitationLists(chunks) :
          result' = AnswerResult(KeyMissingAnswer, citations, chunks)
    /\ qpc' = "returned"
    /\ UNCHANGED <<fileVars, ingestVars, buildVars, envVars, question, top_k, history,
                   larr, lmeta, larrGen, lmetaGen, q_vec, top_indices, chunks,
                   qEmbeds>>

\* qa.py lines 66-82: no credential, the explanation is returned
AnswerNoKey ==
    /\ qpc = "retrieved"
    /\ ~apiKey
    /\ \E citations \in CitationLists(chunks) :
          result' = AnswerResult(KeyMissingAnswer, citations, chunks)
    /\ qpc' = "returned"
    /\ UNCHANGED <<fileVars, ingestVars, buildVars, envVars, question, top_k, history,
                   larr, lmeta, larrGen, lmetaGen, q_vec, top_indices, chunks,
                   qEmbeds, sent>>

\* the message list built on the caller's history list itself
AnswerChatAliasingHistory ==
    /\ qpc = "retrieved"
    /\ apiKey
    /\ sent' = Append(sent, Messages(chunks, question, history))
    /\ history' = Append(history, [role |-> "user", content |-> UserMsg(chunks, question)])
    /\ \E text \in ChatTexts, citations \in CitationLists(chunks) :
          result' = AnswerResult(Strip(text), citations, chunks)
    /\ qpc' = "returned"
    /\ UNCHANGED <<fileVars, ingestVars, buildVars, envVars, question, top_k,
                   larr, lmeta, larrGen, lmetaGen, q_vec, top_indices, chunks, qEmbeds>>

\* qa.py lines 84-115: the chat request is made and answered
AnswerChat ==
    /\ qpc = "retrieved"
    /\ apiKey
    /\ sent' = Append(sent, Messages(chunks, question, history))
    /\ \E text \in ChatTexts, citations \in CitationLists(chunks) :
          result' = AnswerResult(Strip(text), citations, chunks)
    /\ qpc' = "returned"
    /\ UNCHANGED <<fileVars, ingestVars, buildVars, envVars, question, top_k, history,
                   larr, lmeta, larrGen, lmetaGen, q_vec, top_indices, chunks, qEmbeds>>

\* a failed chat request that is tried once more
AnswerChatFailRetrying ==
    /\ qpc = "retrieved"
    /\ apiKey
    /\ Len(sent) < 2
    /\ sent' = Append(sent, Messages(chunks, question, history))
    /\ qpc' = "retrieved"
    /\ UNCHANGED <<fileVars, ingestVars, buildVars, envVars, question, top_k, history,
                   larr, lmeta, larrGen, lmetaGen, q_vec, top_indices, chunks, result,
                   qEmbeds>>

\* qa.py lines 91-97 raising: answer_question has no handler
AnswerChatFail ==
    /\ qpc = "retrieved"
    /\ apiKey
    /\ sent' = Append(sent, Messages(chunks, question, history))
    /\ qpc' = "raised"
    /\ UNCHANGED <<fileVars, ingestVars, buildVars, envVars, question, top_k, history,
                   larr, lmeta, larrGen, lmetaGen, q_vec, top_indices, chunks, result,
                   qEmbeds>>

\* the call is over; its locals are gone
AskEnd ==
    /\ qpc \in {"returned", "raised"}
    /\ qpc' = "idle"
    /\ larr' = NoFile
    /\ lmeta' = <<>>
    /\ larrGen' = 0
    /\ lmetaGen' = 0
    /\ q_vec' = <<>>
    /\ top_indices' = <<>>
    /\ chunks' = <<>>
    /\ result' = NoResult
    /\ qEmbeds' = 0
    /\ sent' = <<>>
    /\ question' = "q1"
    /\ top_k' = 1
    /\ history' = <<>>
    /\ UNCHANGED <<fileVars, ingestVars, buildVars, envVars>>

\* a caller of load_index has its pair; what it goes on to do with it
\* reads and writes no file
LoadIndexEnd ==
    /\ qpc = "loaded"
    /\ qpc' = "idle"
    /\ larr' = NoFile
    /\ lmeta' = <<>>
    /\ larrGen' = 0
    /\ lmetaGen' = 0
    /\ UNCHANGED <<fileVars, ingestVars, buildVars, envVars, question, top_k, history,
                   q_vec, top_indices, chunks, result, qEmbeds, sent>>

\* the steps of ingest_all and build_index
Maintain ==
    \/ IngestOpen
    \/ IngestFile
    \/ IngestReturn
    \/ BuildStart
    \/ EmbedBatch
    \/ EmbedFail
    \/ SaveMatrix
    \/ WriteMeta
    \/ BuildEnd

\* the steps of load_index, to the pair it returns
LoadIndex ==
    \/ ReadArr
    \/ ReadMeta

\* the steps of answer_question once load_index has returned, until it
\* returns or raises
Respond ==
    \/ RetrieveEmpty
    \/ EmbedQueryFail
    \/ RetrieveRank
    \/ AnswerNoKey
    \/ AnswerChat
    \/ AnswerChatFail

\* those steps and the end of the call
Answer ==
    \/ Respond
    \/ AskEnd

(***************************************************************************)
(* Spec: ingestion runs and index builds, with questions loading the       *)
(* index meanwhile, interleaved at the grain of their file accesses and    *)
(* service calls.                                                          *)
(***************************************************************************)
Next ==
    \/ Maintain
    \/ AskStart("q1", 1, <<>>)
    \/ LoadIndex
    \/ LoadIndexEnd

Spec == Init /\ [][Next]_vars

(***************************************************************************)
(* SpecQA: questions against an index at rest.  The index is one a build   *)
(* leaves behind for some chunk store and some answers of the embedding    *)
(* service, or one of the states of the data directory without a usable    *)
(* index (a file missing, or files without entries), or the index a        *)
(* rebuild leaves when it stops between its two writes.                     *)
(***************************************************************************)
\* the chunk store ingest_all writes for a directory
RECURSIVE StoreFrom(_)
StoreFrom(names) ==
    IF names = <<>> THEN <<>> ELSE FileChunks(Head(names)) \o StoreFrom(Tail(names))

StoreOf(dir) == StoreFrom(SortedNames(dir, 1))

BuiltIndexes ==
    UNION {{[emb |-> File(AsFloat32(v)), meta |-> File(BatchMeta(StoreOf(d)))] :
              v \in [DOMAIN StoreOf(d) -> IndexVecs]} : d \in RawDirs \ {{}}}

UnusableIndexes ==
    {[emb |-> NoFile, meta |-> NoFile],
     [emb |-> File(<<<<5, 0>>>>), meta |-> NoFile],
     [emb |-> NoFile, meta |-> File(BatchMeta(StoreOf({4})))],
     [emb |-> File(<<>>), meta |-> File(<<>>)]}

\* the matrix of a build on three chunks over the metadata of one on two
TornIndexes ==
    {[emb |-> File(<<<<5, 0>>, <<3, 4>>, <<0, 5>>>>), meta |-> File(BatchMeta(StoreOf({2, 3})))]}

\* the data directory holds one of these indexes and nothing is running
AtRest(indexes) ==
    /\ \E ix \in indexes :
          /\ embFile = ix.emb
          /\ metaFile = ix.meta
          /\ embGen = IF ix \in TornIndexes THEN 2 ELSE IF ix.emb.exists THEN 1 ELSE 0
          /\ metaGen = IF ix.meta.exists THEN 1 ELSE 0
          /\ indexDir = (ix.emb.exists \/ ix.meta.exists)
    /\ rawDir = {}
    /\ chunksFile = NoFile
    /\ apiKey \in BOOLEAN
    /\ ipc = "idle"
    /\ iqueue = <<>>
    /\ icount = 0
    /\ nIngest = 0
    /\ bpc = "idle"
    /\ bchunks = <<>>
    /\ bi = 0
    /\ all_vectors = <<>>
    /\ meta = <<>>
    /\ bret = 0
    /\ nBuild = 0
    /\ bOldEmb = NoFile
    /\ bOldMeta = NoFile
    /\ bOldDir = FALSE
    /\ bCalls = <<>>
    /\ bAnswers = <<>>
    /\ qpc = "idle"
    /\ question = "q1"
    /\ top_k = 1
    /\ history = <<>>
    /\ larr = NoFile
    /\ lmeta = <<>>
    /\ larrGen = 0
    /\ lmetaGen = 0
    /\ q_vec = <<>>
    /\ top_indices = <<>>
    /\ chunks = <<>>
    /\ result = NoResult
    /\ qEmbeds = 0
    /\ sent = <<>>

InitQA ==
    /\ AtRest(BuiltIndexes \cup UnusableIndexes \cup TornIndexes)
    /\ NoSession
    /\ NoChunking
    /\ NoRebuild
    /\ NoLoading
    /\ bsize = BATCH_SIZE

NextQA ==
    \/ \E q \in Questions, k \in 1..MaxTopK, h \in Histories : AskStart(q, k, h)
    \/ LoadIndex
    \/ Answer

SpecQA == InitQA /\ [][NextQA]_vars

(***************************************************************************)
(* The chat pages: pages/6_QA_Chat.py and pages/1_QA_Chat.py.  One script  *)
(* run handles one submitted question.                                     *)
(***************************************************************************)
ChatPages == {"1_QA_Chat", "6_QA_Chat"}

\* 6_QA_Chat.py line 66: positions of the slider
SliderValues == {3, 4}

\* retrieval.py line 16, qa.py line 26
DEFAULT_TOP_K == 5

\* questions a session submits before it is cleared
MaxTurns == 2

\* 6_QA_Chat.py line 103, 1_QA_Chat.py line 43
UserTurn(prompt) == [role |-> "user", content |-> <<prompt>>]

\* 6_QA_Chat.py lines 44-53: the quick questions of the chips
suggested == {"s1"}

\* the whole history, the current user message included
PriorWithCurrent(h) == [n \in 1..Len(h) |-> [role |-> h[n].role, content |-> h[n].content]]

\* 6_QA_Chat.py lines 113-116: the turns before the current user message
Prior(h) == [n \in 1..(Len(h) - 1) |-> [role |-> h[n].role, content |-> h[n].content]]

\* str(e) of the exception answer_question raised
ExcMessage ==
    IF sent # <<>> THEN "chat request failed"
    ELSE IF top_indices # <<>> THEN "list index out of range"
    ELSE "embedding request failed"

\* 6_QA_Chat.py lines 118-124, 1_QA_Chat.py lines 53-59
ErrorResult(p, e) ==
    [returned |-> TRUE,
     answer |-> <<IF p = "6_QA_Chat" THEN "Error running Q&A: " ELSE "Error: ", e>>,
     citations |-> <<>>, excerpts |-> <<>>, no_index |-> TRUE]

\* 6_QA_Chat.py lines 151-157, 1_QA_Chat.py lines 77-84
AssistantTurn(p, r) ==
    IF p = "6_QA_Chat"
    THEN [role |-> "assistant", content |-> r.answer, excerpts |-> r.excerpts]
    ELSE [role |-> "assistant", content |-> r.answer, citations |-> r.citations,
          excerpts |-> r.excerpts]

\* 6_QA_Chat.py lines 97-105, 1_QA_Chat.py lines 42-45: a question is
\* submitted and its user turn appended
PageSubmit(prompt) ==
    /\ page \in ChatPages
    /\ hpc = "idle"
    /\ qpc = "idle"
    /\ Len(chat_history) < 2 * MaxTurns
    /\ chat_history' = Append(chat_history, UserTurn(prompt))
    /\ hpc' = "handling"
    /\ UNCHANGED <<fileVars, ingestVars, buildVars, apiKey, queryVars, page, slider,
                   shown, chunkerVars, sourcesVars, auxVars>>

\* 6_QA_Chat.py lines 55-59 and 97-105: a chip is clicked; its question is
\* left in pending_question, popped by the same script run in place of the
\* empty chat input and handled as a typed one is
PageChip(q) ==
    /\ page = "6_QA_Chat"
    /\ PageSubmit(q)

\* 6_QA_Chat.py line 117, 1_QA_Chat.py line 52: the call of answer_question
PageAsk ==
    /\ hpc = "handling"
    /\ LET prompt == chat_history[Len(chat_history)].content[1]
       IN  IF page = "6_QA_Chat"
           THEN AskStart(prompt, slider, Prior(chat_history))
           ELSE AskStart(prompt, DEFAULT_TOP_K, <<>>)

\* an assistant turn that drops the answer of a call that raised
PageCaughtSilently ==
    /\ hpc = "handling"
    /\ qpc = "raised"
    /\ shown' = ErrorResult(page, ExcMessage)
    /\ chat_history' = chat_history
    /\ hpc' = "idle"
    /\ UNCHANGED <<fileVars, ingestVars, buildVars, apiKey, queryVars, page, slider,
                   chunkerVars, sourcesVars, auxVars>>

\* 6_QA_Chat.py lines 118-157, 1_QA_Chat.py lines 53-84: the call raised;
\* the handler's own result is rendered and the assistant turn appended
PageCaught ==
    /\ hpc = "handling"
    /\ qpc = "raised"
    /\ shown' = ErrorResult(page, ExcMessage)
    /\ chat_history' = Append(chat_history, AssistantTurn(page, shown'))
    /\ hpc' = "idle"
    /\ UNCHANGED <<fileVars, ingestVars, buildVars, apiKey, queryVars, page, slider,
                   chunkerVars, sourcesVars, auxVars>>

\* 6_QA_Chat.py lines 126-157, 1_QA_Chat.py lines 61-84: the call returned;
\* its result is rendered and the assistant turn appended
PageReturned ==
    /\ hpc = "handling"
    /\ qpc = "returned"
    /\ shown' = result
    /\ chat_history' = Append(chat_history, AssistantTurn(page, result))
    /\ hpc' = "idle"
    /\ UNCHANGED <<fileVars, ingestVars, buildVars, apiKey, queryVars, page, slider,
                   chunkerVars, sourcesVars, auxVars>>

\* 6_QA_Chat.py lines 160-163, 1_QA_Chat.py lines 86-89: the clear button
PageClear ==
    /\ page \in ChatPages
    /\ hpc = "idle"
    /\ qpc = "idle"
    /\ chat_history # <<>>
    /\ chat_history' = <<>>
    /\ UNCHANGED <<fileVars, ingestVars, buildVars, apiKey, queryVars, page, hpc,
                   slider, shown, chunkerVars, sourcesVars, auxVars>>

\* the script run ends: the locals of the call are gone
PageRunEnd ==
    /\ hpc = "idle"
    /\ AskEnd

(***************************************************************************)
(* SpecChat: one session of a chat page against an index at rest.          *)
(***************************************************************************)
\* no index, an index of two chunks, and the torn index
ChatIndexes ==
    {[emb |-> NoFile, meta |-> NoFile],
     [emb |-> File(AsFloat32(<<<<5, 0>>, <<3, 4>>>>)),
      meta |-> File(BatchMeta(StoreOf({2, 3})))]} \cup TornIndexes

InitChat ==
    /\ AtRest(ChatIndexes)
    /\ page \in ChatPages
    /\ chat_history = <<>>
    /\ hpc = "idle"
    /\ slider \in (IF page = "6_QA_Chat" THEN SliderValues ELSE {0})
    /\ shown = NoResult
    /\ NoChunking
    /\ NoRebuild
    /\ NoLoading
    /\ bsize = BATCH_SIZE

NextChat ==
    \/ \E prompt \in Questions : PageSubmit(prompt)
    \/ \E q \in suggested : PageChip(q)
    \/ PageAsk
    \/ LoadIndex
    \/ Respond
    \/ PageCaught
    \/ PageReturned
    \/ PageRunEnd
    \/ PageClear

SpecChat == InitChat /\ [][NextChat]_vars

(***************************************************************************)
(* SpecChunk: calls of _chunk_text followed window by window, under a      *)
(* configuration that need not have the overlap below the window.          *)
(***************************************************************************)
\* the largest window, overlap and text of a configuration and call
MaxSize == 3
MaxOverlap == 4
MaxLen == 6
\* chunks after which a call is followed no further
MaxYield == 8

Max(a, b) == IF a > b THEN a ELSE b

\* the texts given to the chunker: runs of distinct tokens, and one of a
\* repeated token
TokenTexts ==
    {SubSeq(<<"t1", "t2", "t3", "t4", "t5", "t6", "t7">>, 1, n) : n \in 0..MaxLen}
        \cup {<<"t1", "t1", "t1", "t1">>}

\* the page arguments
PageArgs == {NoPage, <<0>>, <<2>>}

\* Python's s[a:b]: a negative bound counts from the end, and both are
\* clamped to the sequence
PySlice(s, a, b) ==
    LET na == IF a < 0 THEN Max(a + Len(s), 0) ELSE Min(a, Len(s))
        nb == IF b < 0 THEN Max(b + Len(s), 0) ELSE Min(b, Len(s))
    IN  SubSeq(s, na + 1, nb)

\* ingest.py lines 28-31: the call, to the loop
ChunkCall(text, filename, page_num) ==
    /\ cpc = "idle"
    /\ ctokens' = text
    /\ cfile' = filename
    /\ cpage' = page_num
    /\ cnum' = 0
    /\ cstart' = 0
    /\ cout' = <<>>
    /\ cpc' = "loop"
    /\ UNCHANGED <<fileVars, ingestVars, buildVars, apiKey, chatVars, queryVars,
                   sourcesVars, auxVars, csize, coverlap>>

\* the chunk of lines 35-42 for the window [cstart, end)
ChunkAt(end) ==
    [chunk_id |-> ChunkId(cfile, cpage, cnum),
     filename |-> cfile,
     page |-> cpage,
     text |-> PySlice(ctokens, cstart, end)]

\* the loop without its break at lines 44-45
ChunkStepNoBreak ==
    /\ cpc = "loop"
    /\ Len(cout) < MaxYield
    /\ IF ~(cstart < Len(ctokens))
       THEN /\ cpc' = "done"
            /\ UNCHANGED <<cstart, cnum, cout>>
       ELSE LET end == Min(cstart + csize, Len(ctokens))
            IN  /\ cout' = Append(cout, ChunkAt(end))
                /\ cnum' = cnum + 1
                /\ cstart' = cstart + csize - coverlap
                /\ cpc' = "loop"
    /\ UNCHANGED <<fileVars, ingestVars, buildVars, apiKey, chatVars, queryVars,
                   sourcesVars, auxVars, csize, coverlap, ctokens, cfile, cpage>>

\* the loop advancing by the whole window
ChunkStepNoOverlap ==
    /\ cpc = "loop"
    /\ Len(cout) < MaxYield
    /\ IF ~(cstart < Len(ctokens))
       THEN /\ cpc' = "done"
            /\ UNCHANGED <<cstart, cnum, cout>>
       ELSE LET end == Min(cstart + csize, Len(ctokens))
            IN  /\ cout' = Append(cout, ChunkAt(end))
                /\ cnum' = cnum + 1
                /\ cstart' = cstart + csize
                /\ cpc' = IF end = Len(ctokens) THEN "done" ELSE "loop"
    /\ UNCHANGED <<fileVars, ingestVars, buildVars, apiKey, chatVars, queryVars,
                   sourcesVars, auxVars, csize, coverlap, ctokens, cfile, cpage>>

\* the loop stepping one token short, so that windows share one token more
ChunkStepWiderOverlap ==
    /\ cpc = "loop"
    /\ Len(cout) < MaxYield
    /\ IF ~(cstart < Len(ctokens))
       THEN /\ cpc' = "done"
            /\ UNCHANGED <<cstart, cnum, cout>>
       ELSE LET end == Min(cstart + csize, Len(ctokens))
            IN  /\ cout' = Append(cout, ChunkAt(end))
                /\ cnum' = cnum + 1
                /\ cstart' = cstart + csize - coverlap - 1
                /\ cpc' = IF end = Len(ctokens) THEN "done" ELSE "loop"
    /\ UNCHANGED <<fileVars, ingestVars, buildVars, apiKey, chatVars, queryVars,
                   sourcesVars, auxVars, csize, coverlap, ctokens, cfile, cpage>>

\* ingest.py lines 32-45: one pass of the while loop, or its exit
ChunkStep ==
    /\ cpc = "loop"
    /\ Len(cout) < MaxYield
    /\ IF ~(cstart < Len(ctokens))
       THEN /\ cpc' = "done"
            /\ UNCHANGED <<cstart, cnum, cout>>
       ELSE LET end == Min(cstart + csize, Len(ctokens))
            IN  /\ cout' = Append(cout, ChunkAt(end))
                /\ cnum' = cnum + 1
                /\ cstart' = cstart + csize - coverlap
                /\ cpc' = IF end = Len(ctokens) THEN "done" ELSE "loop"
    /\ UNCHANGED <<fileVars, ingestVars, buildVars, apiKey, chatVars, queryVars,
                   sourcesVars, auxVars, csize, coverlap, ctokens, cfile, cpage>>

\* the generator is exhausted and dropped
ChunkEnd ==
    /\ cpc = "done"
    /\ cpc' = "idle"
    /\ ctokens' = <<>>
    /\ cfile' = ""
    /\ cpage' = NoPage
    /\ cstart' = 0
    /\ cnum' = 0
    /\ cout' = <<>>
    /\ UNCHANGED <<fileVars, ingestVars, buildVars, apiKey, chatVars, queryVars,
                   sourcesVars, auxVars, csize, coverlap>>

InitChunk ==
    /\ AtRest({[emb |-> NoFile, meta |-> NoFile]})
    /\ apiKey
    /\ NoSession
    /\ csize \in 1..MaxSize
    /\ coverlap \in 0..MaxOverlap
    /\ cpc = "idle"
    /\ ctokens = <<>>
    /\ cfile = ""
    /\ cpage = NoPage
    /\ cstart = 0
    /\ cnum = 0
    /\ cout = <<>>
    /\ NoRebuild
    /\ NoLoading
    /\ bsize = BATCH_SIZE

NextChunk ==
    \/ \E text \in TokenTexts, filename \in {"a.txt", "b.pdf"}, page_num \in PageArgs :
          ChunkCall(text, filename, page_num)
    \/ ChunkStep
    \/ ChunkEnd

SpecChunk == InitChunk /\ [][NextChunk]_vars

\* a call that has been made is run on: the consumer of the generator (the
\* list() of ingest_all) asks for the next chunk until there is none
SpecChunkFair == SpecChunk /\ WF_vars(ChunkStep)

(***************************************************************************)
(* SpecRebuild: the Rebuild Index button of pages/6_Sources.py, pressed    *)
(* again and again over the raw directory of the first run: ingest_all(), then    *)
(* build_index(), one after the other.                                     *)
(***************************************************************************)
\* how often the button is pressed
MaxRebuilds == 2

\* the chunk ids of a list of records
ChunkIds(cs) == [n \in DOMAIN cs |-> cs[n].chunk_id]

\* 6_Sources.py lines 74-75: the button is pressed
RebuildClick ==
    /\ spc \in {"idle", "rerun"}
    /\ ipc = "idle"
    /\ bpc = "idle"
    /\ Len(runs) < MaxRebuilds
    /\ spc' = "ingest"
    /\ UNCHANGED <<fileVars, ingestVars, buildVars, apiKey, chatVars, chunkerVars,
                   auxVars, queryVars, runs>>

\* line 77: ingest_all() on the directory as it is
RebuildIngest ==
    /\ spc = "ingest"
    /\ nIngest = Len(runs)
    /\ IngestOpen
    /\ runs # <<>> => rawDir' = rawDir

\* line 77 returned; line 80 is next
RebuildIngested ==
    /\ spc = "ingest"
    /\ nIngest = Len(runs) + 1
    /\ ipc = "idle"
    /\ spc' = "build"
    /\ UNCHANGED <<fileVars, ingestVars, buildVars, apiKey, chatVars, chunkerVars,
                   auxVars, queryVars, runs>>

\* line 80: build_index()
RebuildBuild ==
    /\ spc = "build"
    /\ nBuild <= Len(runs)
    /\ BuildStart

\* lines 81-85, or the exception of build_index ending the script run: the
\* run is over, and what it left on disk is noted
RebuildDone ==
    /\ spc = "build"
    /\ bpc \in {"returned", "raised"}
    /\ runs' = Append(runs, [ok |-> bpc = "returned",
                             store |-> chunksFile,
                             vectors |-> embFile,
                             meta |-> metaFile,
                             n_c |-> icount,
                             n_e |-> bret])
    /\ spc' = "rerun"
    /\ UNCHANGED <<fileVars, ingestVars, buildVars, apiKey, chatVars, chunkerVars,
                   auxVars, queryVars>>

\* the locals of build_index are gone with the script run
RebuildEnd ==
    /\ spc = "rerun"
    /\ BuildEnd

NextRebuild ==
    \/ RebuildClick
    \/ RebuildIngest
    \/ IngestFile
    \/ IngestReturn
    \/ RebuildIngested
    \/ RebuildBuild
    \/ EmbedBatch
    \/ EmbedFail
    \/ SaveMatrix
    \/ WriteMeta
    \/ RebuildDone
    \/ RebuildEnd

SpecRebuild == Init /\ [][NextRebuild]_vars

(***************************************************************************)
(* SpecRebuildFail: the Rebuild handler when a source file may fail to be  *)
(* read.  The handler catches nothing, so the exception of ingest_all ends *)
(* the script run before build_index is called.                            *)
(***************************************************************************)
\* 6_Sources.py line 77 raised: the script run is over with the store as
\* ingest_all left it; neither count was assigned
RebuildIngestRaised ==
    /\ spc = "ingest"
    /\ ipc = "raised"
    /\ runs' = Append(runs, [ok |-> FALSE,
                             store |-> chunksFile,
                             vectors |-> embFile,
                             meta |-> metaFile,
                             n_c |-> 0,
                             n_e |-> 0])
    /\ spc' = "rerun"
    /\ ipc' = "idle"
    /\ iqueue' = <<>>
    /\ icount' = 0
    /\ UNCHANGED <<fileVars, rawDir, nIngest, buildVars, apiKey, chatVars, chunkerVars,
                   auxVars, queryVars>>

NextRebuildFail ==
    \/ NextRebuild
    \/ IngestFail
    \/ RebuildIngestRaised

SpecRebuildFail == Init /\ [][NextRebuildFail]_vars

(***************************************************************************)
(* SpecLoad: calls of _load_pdf and _load_text on documents of up to       *)
(* MaxPages pages, followed page by page.  The tokens of page p are named  *)
(* after p, so that a chunk shows the page it was cut from.                *)
(***************************************************************************)
MaxPages == 3
MaxPageLen == 4

PageTokens ==
    << <<"a1", "a2", "a3", "a4", "a5", "a6">>,
       <<"b1", "b2", "b3", "b4", "b5", "b6">>,
       <<"c1", "c2", "c3", "c4", "c5", "c6">>,
       <<"d1", "d2", "d3", "d4", "d5", "d6">> >>

\* the documents: for every page a text of 0..MaxPageLen tokens (what
\* extract_text() or read_text() gives, stripped)
Documents ==
    UNION {{[p \in 1..np |-> SubSeq(PageTokens[p], 1, lens[p])] :
               lens \in [1..np -> 0..MaxPageLen]} : np \in 1..MaxPages}

\* ingest.py lines 48-50: _load_pdf is called and the reader opened
LoadPdfCall(name, doc) ==
    /\ dpc = "idle"
    /\ dname' = name
    /\ dpages' = doc
    /\ dnum' = 1
    /\ dout' = <<>>
    /\ dpc' = "pages"
    /\ UNCHANGED <<fileVars, ingestVars, buildVars, apiKey, chatVars, chunkerVars,
                   sourcesVars, queryVars, bsize>>

\* the loop numbering the pages from 0
LoadPdfPageFromZero ==
    /\ dpc = "pages"
    /\ IF dnum > Len(dpages)
       THEN /\ dpc' = "done"
            /\ UNCHANGED <<dnum, dout>>
       ELSE /\ dout' = dout \o (IF dpages[dnum] = <<>> THEN <<>>
                                ELSE ChunkText(dpages[dnum], dname, <<dnum - 1>>))
            /\ dnum' = dnum + 1
            /\ dpc' = "pages"
    /\ UNCHANGED <<fileVars, ingestVars, buildVars, apiKey, chatVars, chunkerVars,
                   sourcesVars, queryVars, bsize, dname, dpages>>

\* ingest.py lines 51-55: one page of the loop, or its end
LoadPdfPage ==
    /\ dpc = "pages"
    /\ IF dnum > Len(dpages)
       THEN /\ dpc' = "done"
            /\ UNCHANGED <<dnum, dout>>
       ELSE /\ dout' = dout \o (IF dpages[dnum] = <<>> THEN <<>>
                                ELSE ChunkText(dpages[dnum], dname, <<dnum>>))
            /\ dnum' = dnum + 1
            /\ dpc' = "pages"
    /\ UNCHANGED <<fileVars, ingestVars, buildVars, apiKey, chatVars, chunkerVars,
                   sourcesVars, queryVars, bsize, dname, dpages>>

\* ingest.py lines 58-61: _load_text, the whole file as one text
LoadTextCall(name, text) ==
    /\ dpc = "idle"
    /\ dname' = name
    /\ dpages' = <<text>>
    /\ dnum' = 0
    /\ dout' = (IF text # <<>> THEN ChunkText(text, name, NoPage) ELSE <<>>)
    /\ dpc' = "done"
    /\ UNCHANGED <<fileVars, ingestVars, buildVars, apiKey, chatVars, chunkerVars,
                   sourcesVars, queryVars, bsize>>

\* the generator is exhausted and dropped
LoadEnd ==
    /\ dpc = "done"
    /\ dpc' = "idle"
    /\ dname' = ""
    /\ dpages' = <<>>
    /\ dnum' = 0
    /\ dout' = <<>>
    /\ UNCHANGED <<fileVars, ingestVars, buildVars, apiKey, chatVars, chunkerVars,
                   sourcesVars, queryVars, bsize>>

NextLoad ==
    \/ \E doc \in Documents \cup {Pages("b.pdf")} : LoadPdfCall("b.pdf", doc)
    \/ LoadPdfPage
    \/ \E doc \in Documents : \E name \in {"a.txt", "d.md"} : LoadTextCall(name, doc[1])
    \/ LoadEnd

SpecLoad == Init /\ [][NextLoad]_vars

(***************************************************************************)
(* SpecBatch: index builds over chunk stores at rest under every batch     *)
(* size up to MaxBatch; ingestion runs between the builds.                 *)
(***************************************************************************)
MaxBatch == 4

InitBatch ==
    /\ Fresh
    /\ bsize \in 1..MaxBatch

NextBatch ==
    \/ (bpc = "idle" /\ IngestOpen)
    \/ IngestFile
    \/ IngestReturn
    \/ (ipc = "idle" /\ BuildStart)
    \/ EmbedBatch
    \/ EmbedFail
    \/ SaveMatrix
    \/ WriteMeta
    \/ BuildEnd

SpecBatch == InitBatch /\ [][NextBatch]_vars

(***************************************************************************)
(* Properties.                                                             *)
(***************************************************************************)
\* retrieve has returned to answer_question (a call that raised later did
\* so in the chat request)
RetrieveReturned ==
    \/ qpc \in {"retrieved", "returned"}
    \/ qpc = "raised" /\ sent # <<>>

\* answer_question is over: it returned or raised
CallOver == qpc \in {"returned", "raised"}

NoExcerptsSentence == "No case document excerpts are available."

NoIndexOnDisk == ~embFile.exists \/ ~metaFile.exists \/ Len(metaFile.data) = 0

\* C3: with the matrix file or the metadata file absent load_index returns
\* (None, []), and then, as with an index without entries, retrieve returns
\* the empty list: it does not raise and makes no embedding call.
C3_NoIndexGivesEmptyRetrieval ==
    /\ (qpc = "loaded" /\ (~embFile.exists \/ ~metaFile.exists)) =>
          larr = NoFile /\ lmeta = <<>>
    /\ (qpc = "loaded" /\ NoIndexOnDisk) => ENABLED RetrieveEmpty
    /\ (NoIndexOnDisk /\ qpc \in {"retrieved", "returned", "raised"}) =>
          /\ RetrieveReturned
          /\ chunks = <<>>
          /\ qEmbeds = 0

C3_Witness ==
    /\ qpc = "retrieved"
    /\ embFile.exists
    /\ ~metaFile.exists
    /\ chunks = <<>>
    /\ qEmbeds = 0

\* the lists of a sequence of lists, one after the other
RECURSIVE Concat(_)
Concat(lists) == IF lists = <<>> THEN <<>> ELSE Head(lists) \o Concat(Tail(lists))

\* C4: after a build that completes on a non-empty chunk store the metadata
\* and the matrix have as many entries as the store, the metadata is in the
\* order of the store, and row i is the vector the embedding service
\* returned for the text of the chunk of metadata[i]; a load_index of these
\* files returns them as they are.
C4_IndexAligned ==
    /\ (bpc = "returned" /\ bchunks # <<>>) =>
          /\ embFile.exists /\ metaFile.exists
          /\ Len(metaFile.data) = Len(bchunks)
          /\ Len(embFile.data) = Len(metaFile.data)
          /\ \A i \in DOMAIN bchunks :
                /\ metaFile.data[i] = MetaOf(bchunks[i])
                /\ Concat(bCalls)[i] = metaFile.data[i].text
                /\ embFile.data[i] = Concat(bAnswers)[i]
    /\ (qpc = "loaded" /\ larr.exists /\ larrGen = embGen /\ lmetaGen = metaGen) =>
          larr = embFile /\ lmeta = metaFile.data

C4_Witness ==
    /\ bpc = "returned"
    /\ Len(bchunks) > BATCH_SIZE
    /\ embFile.data[1] # embFile.data[2]
    /\ metaFile.data[1].filename # metaFile.data[Len(bchunks)].filename

\* C5: load_index never returns the matrix of one build with the metadata
\* of another: what a question loads while an index build runs is the
\* whole old index or the whole new one.
C5_LoadSeesOneBuild ==
    (qpc = "loaded" /\ larr.exists) => larrGen = lmetaGen

\* C6: when an embedding call of a build raises, in the first batch or a
\* later one, the build is over with that error and the matrix file and the
\* metadata file are as they were when the build started.
C6_FailedBuildCommitsNothing ==
    bpc = "raised" =>
        /\ embFile = bOldEmb
        /\ metaFile = bOldMeta
        /\ ~ENABLED SaveMatrix
        /\ ~ENABLED WriteMeta

C6_Witness ==
    /\ bpc = "raised"
    /\ Len(bCalls) = 2
    /\ bOldEmb.exists
    /\ embFile = bOldEmb

\* the entries of the persisted index
IndexEntries == IF metaFile.exists THEN metaFile.data ELSE <<>>
IndexRows == IF embFile.exists THEN embFile.data ELSE <<>>

\* C7 as stated: after any build that returns, whatever the chunk store,
\* the persisted index holds exactly the chunks the build read, in their
\* order, and nothing an earlier build wrote.
C7_IndexIsTheStoreRead ==
    bpc = "returned" =>
        /\ IndexEntries = BatchMeta(bchunks)
        /\ Len(IndexRows) = Len(bchunks)

\* C7, amended: after a build that returns on a non-empty chunk store the
\* persisted index holds exactly the chunks the build read, in their order,
\* and nothing an earlier build wrote; a build on an empty or missing store
\* returns leaving the earlier index in place.
C7_IndexReplacedUnlessStoreEmpty ==
    bpc = "returned" =>
        IF bchunks # <<>>
        THEN /\ IndexEntries = BatchMeta(bchunks)
             /\ Len(IndexRows) = Len(bchunks)
             /\ embGen = nBuild /\ metaGen = nBuild
        ELSE /\ IndexEntries = (IF bOldMeta.exists THEN bOldMeta.data ELSE <<>>)
             /\ IndexRows = (IF bOldEmb.exists THEN bOldEmb.data ELSE <<>>)

C7_Witness ==
    /\ bpc = "returned"
    /\ bchunks # <<>>
    /\ bOldMeta.exists
    /\ Len(bOldMeta.data) > Len(bchunks)
    /\ IndexEntries = BatchMeta(bchunks)

\* C8: build_index returns the number of entries it persisted, the number
\* of chunks of the chunk store; on an empty or missing store it returns 0,
\* does not raise, makes no embedding call and creates or changes no file.
C8_BuildReturnsCount ==
    /\ bpc = "returned" =>
          /\ bret = Len(bchunks)
          /\ bchunks # <<>> => bret = Len(metaFile.data) /\ bret = Len(embFile.data)
          /\ bchunks = <<>> =>
                /\ bret = 0
                /\ bCalls = <<>>
                /\ embFile = bOldEmb
                /\ metaFile = bOldMeta
                /\ indexDir = bOldDir
    /\ bpc \in {"loop", "savez", "write_meta", "raised"} => bchunks # <<>>

C8_Witness ==
    /\ bpc = "returned"
    /\ ~chunksFile.exists
    /\ bret = 0
    /\ ~embFile.exists
    /\ ~indexDir

\* retrieve has ranked an index whose matrix and metadata have the same
\* N >= 1 entries, and returned
Ranked ==
    /\ RetrieveReturned
    /\ larr.exists
    /\ Len(lmeta) >= 1
    /\ Len(larr.data) = Len(lmeta)

\* the scores of the rows of the loaded index for the query vector
LoadedScores == CosineSimilarity(q_vec, larr.data)

\* the indices retrieve left out
LeftOut == (1..Len(lmeta)) \ {top_indices[i] : i \in DOMAIN top_indices}

\* C9: on an index of N >= 1 entries and for a positive top_k, retrieve
\* returns min(top_k, N) distinct entries, top_k > N being no error; they
\* are the entries of the highest scores in non-increasing order of score,
\* so the first has the greatest score of the index, which is the score of
\* any entry whose embedding is the query vector.
C9_TopKByScore ==
    /\ Ranked =>
          /\ Len(chunks) = Min(top_k, Len(lmeta))
          /\ Len(top_indices) = Len(chunks)
          /\ \A i \in DOMAIN chunks :
                /\ top_indices[i] \in 1..Len(lmeta)
                /\ chunks[i] = ResultOf(lmeta[top_indices[i]], LoadedScores[top_indices[i]])
          /\ \A i, j \in DOMAIN chunks :
                /\ i # j => top_indices[i] # top_indices[j]
                /\ i < j => chunks[i].score >= chunks[j].score
          /\ \A r \in LeftOut : LoadedScores[r] <= chunks[Len(chunks)].score
          /\ \A r \in 1..Len(lmeta) :
                /\ LoadedScores[r] <= chunks[1].score
                /\ larr.data[r] = q_vec => LoadedScores[r] = chunks[1].score
    /\ (qpc = "raised" /\ larr.exists /\ Len(lmeta) >= 1 /\ Len(larr.data) = Len(lmeta)) =>
          top_indices = <<>> \/ sent # <<>>

C9_Witness ==
    /\ qpc = "retrieved"
    /\ Ranked
    /\ top_k > Len(lmeta)
    /\ Len(chunks) = Len(lmeta)
    /\ larr.data[top_indices[1]] = q_vec

\* C10 as stated: entries of equal score are ranked in index order, the
\* smaller index first, and when they straddle the cut-off the earlier one
\* is the one returned.
C10_TiesInIndexOrder ==
    Ranked =>
        /\ \A i, j \in DOMAIN chunks :
              (i < j /\ chunks[i].score = chunks[j].score) => top_indices[i] < top_indices[j]
        /\ \A i \in DOMAIN chunks : \A r \in LeftOut :
              LoadedScores[r] = chunks[i].score => top_indices[i] < r

\* C10, amended: entries of equal score are not ranked by index order (the
\* reversed argsort fixes no order among them, and either of two that
\* straddle the cut-off may be the one returned); they are listed next to
\* one another, and no entry left out scores higher than one returned.
C10_TiesAdjacentAnyOrder ==
    Ranked =>
        /\ \A i, j, m \in DOMAIN chunks :
              (i < m /\ m < j /\ chunks[i].score = chunks[j].score) =>
                  chunks[m].score = chunks[i].score
        /\ \A i \in DOMAIN chunks : \A r \in LeftOut :
              LoadedScores[r] <= chunks[i].score

C10_Witness ==
    /\ qpc = "retrieved"
    /\ Ranked
    /\ Len(chunks) = 2
    /\ chunks[1].score = chunks[2].score
    /\ top_indices[1] > top_indices[2]
    /\ \E r \in LeftOut : LoadedScores[r] = chunks[2].score /\ r < top_indices[2]

\* C11 as stated: with no credential configured answer_question returns and
\* never raises, for every question and whether or not an index exists; the
\* answer is the fixed explanation, and with an index no_index is false and
\* the citations and excerpts are those of the retrieved chunks.
C11_NoKeyNeverRaises ==
    (~apiKey /\ CallOver) =>
        /\ qpc = "returned"
        /\ result.answer = KeyMissingAnswer
        /\ ~NoIndexOnDisk =>
              /\ ~result.no_index
              /\ result.excerpts = Excerpts(chunks)
              /\ result.citations \in CitationLists(chunks)
              /\ chunks # <<>>

\* C12 as stated: when the chat request fails after chunks were retrieved,
\* the failure is reported as a displayable error and the result the page
\* renders keeps the citations and excerpts computed for those chunks.
C12_ChatFailureKeepsExcerpts ==
    (hpc = "idle" /\ qpc = "raised" /\ sent # <<>> /\ chunks # <<>>) =>
        /\ shown.returned
        /\ shown.answer[2] = "chat request failed"
        /\ shown.excerpts = Excerpts(chunks)
        /\ shown.citations \in CitationLists(chunks)

\* the roles of a chat history alternate, from a user turn
Alternating(h) ==
    \A n \in DOMAIN h : h[n].role = (IF n % 2 = 1 THEN "user" ELSE "assistant")

\* C20: in both chat pages every submitted question leaves the session
\* usable: whether answer_question returns or raises, the history grows by
\* exactly one user turn and then exactly one assistant turn, whose content
\* is the answer returned or the text of the exception caught.
C20_OneUserTurnThenOneAssistantTurn ==
    /\ [](hpc = "idle" => (Len(chat_history) % 2 = 0 /\ Alternating(chat_history)))
    /\ [](hpc = "handling" => (Len(chat_history) % 2 = 1 /\ Alternating(chat_history)))
    /\ [][/\ (hpc = "idle" /\ hpc' = "handling") =>
                \E prompt \in Questions \cup suggested :
                   chat_history' = Append(chat_history, UserTurn(prompt))
          /\ (hpc = "handling" /\ hpc' = "handling") => chat_history' = chat_history
          /\ (hpc = "handling" /\ CallOver) => hpc' = "idle"
          /\ (hpc = "handling" /\ hpc' = "idle") =>
                /\ CallOver
                /\ Len(chat_history') = Len(chat_history) + 1
                /\ SubSeq(chat_history', 1, Len(chat_history)) = chat_history
                /\ LET turn == chat_history'[Len(chat_history')]
                   IN  /\ turn.role = "assistant"
                       /\ turn.content = shown'.answer
                       /\ qpc = "returned" => turn.content = result.answer
                       /\ qpc = "raised" =>
                             /\ turn.content[1] \in {"Error running Q&A: ", "Error: "}
                             /\ turn.content[2] = ExcMessage]_vars

C20_Witness ==
    /\ hpc = "idle"
    /\ Len(chat_history) = 4
    /\ chat_history[2].content = <<"o", "k">>
    /\ chat_history[4].content = <<"Error running Q&A: ", "chat request failed">>

\* the stepwise loop gives what the recursive ChunkText gives under the
\* module's configuration
StepwiseIsChunkText ==
    (cpc = "done" /\ csize = CHUNK_TOKENS /\ coverlap = OVERLAP_TOKENS) =>
        cout = ChunkText(ctokens, cfile, cpage)

\* C13 as stated: under a configuration with overlap >= chunk size a call
\* of the chunker fails with a configuration error before it emits any
\* chunk; and under no configuration does a call go on emitting chunks
\* without end (here: more chunks than there are tokens).
C13_BadConfigurationFailsFast ==
    /\ coverlap >= csize => (cout = <<>> /\ cpc \in {"idle", "loop", "error"})
    /\ Len(cout) <= Len(ctokens)

\* the window k (from 0) of the claim: [k*(S-O), min(k*(S-O)+S, n))
WindowStart(k) == k * (csize - coverlap)
WindowEnd(k) == Min(WindowStart(k) + csize, Len(ctokens))

\* C14: with overlap O below the chunk size S, the k-th chunk (from 0) holds
\* the tokens [k*(S-O), min(k*(S-O)+S, n)); every chunk but the last has S
\* tokens; the last chunk is the first whose window ends at n; no tokens
\* give no chunk and 0 < n <= S tokens give exactly one.
C14_Windows ==
    (coverlap < csize /\ cpc \in {"loop", "done"}) =>
        /\ \A k \in 0..(Len(cout) - 1) :
              /\ cout[k + 1].text =
                     [i \in 1..(WindowEnd(k) - WindowStart(k)) |->
                         ctokens[WindowStart(k) + i]]
              /\ k < Len(cout) - 1 =>
                     /\ Len(cout[k + 1].text) = csize
                     /\ WindowEnd(k) < Len(ctokens)
        /\ cpc = "done" =>
              /\ Len(ctokens) = 0 <=> cout = <<>>
              /\ cout # <<>> => WindowEnd(Len(cout) - 1) = Len(ctokens)
              /\ (0 < Len(ctokens) /\ Len(ctokens) <= csize) => Len(cout) = 1
        /\ cpc = "loop" =>
              (cout # <<>> => WindowEnd(Len(cout) - 1) < Len(ctokens))

C14_Witness ==
    /\ cpc = "done"
    /\ csize = 3
    /\ coverlap = 1
    /\ Len(ctokens) = 6
    /\ Len(cout) = 3
    /\ Len(cout[3].text) = 2

\* the tokens of a chunk after its first `n`
DropFirst(s, n) == SubSeq(s, n + 1, Len(s))

\* the chunks' tokens in order, each after the first without its overlap
RECURSIVE Rejoined(_, _)
Rejoined(cs, k) ==
    IF k > Len(cs) THEN <<>>
    ELSE (IF k = 1 THEN cs[k].text ELSE DropFirst(cs[k].text, coverlap))
         \o Rejoined(cs, k + 1)

\* C15: with overlap below the chunk size, the chunks' token spans in
\* order, each after the first without its leading `overlap` tokens, are
\* together the original token sequence.
C15_Coverage ==
    (coverlap < csize /\ cpc = "done") => Rejoined(cout, 1) = ctokens

C15_Witness ==
    /\ cpc = "done"
    /\ csize = 3
    /\ coverlap = 2
    /\ Len(cout) = 4
    /\ ctokens = <<"t1", "t2", "t3", "t4", "t5", "t6">>

\* the decimal digit of a number below ten
Digit(n) == <<"0", "1", "2", "3", "4", "5", "6", "7", "8", "9">>[n + 1]

\* C16: the k-th chunk (from 0) of a call has the id filename::p<page>::c<k>
\* when a page was given and filename::c<k> when none was, and carries the
\* call's filename and page.
C16_ChunkIds ==
    \A k \in 0..(Len(cout) - 1) :
        /\ cout[k + 1].chunk_id =
              (IF cpage = NoPage THEN <<cfile, "::c", Digit(k)>>
               ELSE <<cfile, "::p", Digit(cpage[1]), "::c", Digit(k)>>)
        /\ cout[k + 1].filename = cfile
        /\ cout[k + 1].page = cpage

C16_Witness ==
    /\ cpc = "done"
    /\ cpage = <<0>>
    /\ Len(cout) = 3
    /\ cout[3].chunk_id = <<"a.txt", "::p", "0", "::c", "2">>

\* the chunks of the supported files among the names from position `from`
RECURSIVE SupportedChunks(_, _)
SupportedChunks(dir, from) ==
    IF from > Len(FileNames) THEN <<>>
    ELSE LET name == FileNames[from]
         IN  (IF from \notin dir THEN <<>>
              ELSE IF Suffix(name) = ".pdf" THEN LoadPdf(name)
              ELSE IF Suffix(name) \in {".txt", ".md"} THEN LoadText(name)
              ELSE <<>>)
             \o SupportedChunks(dir, from + 1)

\* C18: ingest_all rewrites the chunk store from scratch: when it has
\* returned, the store holds one record for each chunk of the .pdf, .txt
\* and .md files of the directory, in sorted filename order, and nothing of
\* an earlier run or of a file of another type; the count returned is the
\* number of records written (0 for an empty directory); and load_chunks
\* reads the records back in that order with equal fields.
C18_StoreRewritten ==
    (ipc = "idle" /\ nIngest > 0) =>
        /\ chunksFile.exists
        /\ LoadChunks(chunksFile) = SupportedChunks(rawDir, 1)
        /\ Len(chunksFile.data) = Len(SupportedChunks(rawDir, 1))
        /\ icount = Len(chunksFile.data)
        /\ rawDir = {} => (icount = 0 /\ chunksFile.data = <<>>)
        /\ \A n \in DOMAIN chunksFile.data :
              /\ Loads(chunksFile.data[n]).filename \in {"a.txt", "b.pdf", "d.md"}
              /\ \E i \in rawDir : FileNames[i] = Loads(chunksFile.data[n]).filename

C18_Witness ==
    /\ ipc = "idle"
    /\ nIngest = 2
    /\ rawDir = {2, 3}
    /\ icount = 2
    /\ LoadChunks(chunksFile)[2].page = <<3>>

\* C17: ingestion followed by the index build, run twice over an unchanged
\* raw directory, leaves the same chunk store both times and, when both
\* builds complete, the same metadata list with the same chunk ids in the
\* same order, whatever vectors the embedding service returned.
C17_RebuildRepeats ==
    \A i, j \in DOMAIN runs :
        /\ runs[i].store = runs[j].store
        /\ runs[i].n_c = runs[j].n_c
        /\ (runs[i].ok /\ runs[j].ok) =>
              /\ runs[i].meta = runs[j].meta
              /\ ChunkIds(runs[i].meta.data) = ChunkIds(runs[j].meta.data)
              /\ ChunkIds(runs[i].meta.data) = ChunkIds(LoadChunks(runs[j].store))
              /\ runs[i].n_e = runs[j].n_e

C17_Witness ==
    /\ Len(runs) = 2
    /\ runs[1].ok
    /\ runs[2].ok
    /\ runs[1].vectors # runs[2].vectors
    /\ Len(runs[2].meta.data) = 3
    /\ Len(runs[1].store.data) = 3

\* the lists retrieve can return for top_k = k from the index on disk, over
\* the answers of the embedding service and the orders of the sort
PossibleChunks(k) ==
    IF NoIndexOnDisk THEN {<<>>}
    ELSE UNION {{Results(TopIndices(order, k), metaFile.data,
                         CosineSimilarity(v, embFile.data)) :
                    order \in {o \in ArgSorts(CosineSimilarity(v, embFile.data)) :
                                  \A i \in DOMAIN TopIndices(o, k) :
                                     TopIndices(o, k)[i] <= Len(metaFile.data)}} :
                v \in QueryVecs}

\* the results answer_question can return for it, over the answers of the
\* chat model as well
PossibleResults(k) ==
    UNION {{AnswerResult(answer, citations, cs) :
               answer \in (IF apiKey THEN {Strip(text) : text \in ChatTexts}
                           ELSE {KeyMissingAnswer}),
               citations \in CitationLists(cs)} :
           cs \in PossibleChunks(k)}

\* C19: retrieve and answer_question are read-only and stateless: no step
\* of a call changes the chunk store, the matrix file, the metadata file,
\* the history list passed in or the caller's chat history; the one chat
\* request is built from the call's own arguments and chunks; and the
\* result is one that the index on disk, the arguments and the services'
\* answers give, whatever was asked before.
C19_ReadOnlyAndStateless ==
    /\ [][/\ UNCHANGED <<chunksFile, embFile, metaFile>>
          /\ (qpc # "idle" /\ qpc' # "idle") => UNCHANGED <<question, top_k, history>>
          /\ (qpc # "idle" /\ ~CallOver) => UNCHANGED chat_history]_vars
    /\ [](sent # <<>> => sent = <<Messages(chunks, question, history)>>)
    /\ [](qpc = "returned" => result \in PossibleResults(top_k))
    /\ []((qpc # "idle" /\ hpc = "handling" /\ page = "6_QA_Chat") =>
             history = Prior(chat_history))

C19_Witness ==
    /\ qpc = "returned"
    /\ Len(chat_history) = 3
    /\ Len(history) = 2
    /\ Len(result.excerpts) = 2
    /\ chat_history[2].excerpts # result.excerpts

ExcerptBlock(i) ==
    <<"\n--- Excerpt ", Digit(i), " ">> \o chunks[i].citation \o <<" ---\n">>
    \o chunks[i].text \o <<"\n">>

\* C22: the message list given to the chat model is one system message with
\* the fixed policy, then every turn of the history passed in, in its
\* order, with its role and content, then one user message that carries the
\* excerpts in rank order, each under its citation label, and the question;
\* without history it is the system message and the user message.
C22_MessageSequence ==
    \A n \in DOMAIN sent :
        LET m == sent[n]
            last == m[Len(m)]
        IN  /\ Len(m) = Len(history) + 2
            /\ m[1] = [role |-> "system", content |-> <<SYSTEM_PROMPT>>]
            /\ \A i \in DOMAIN history :
                  m[i + 1] = [role |-> history[i].role, content |-> history[i].content]
            /\ last.role = "user"
            /\ \A i \in 1..(Len(m) - 1) : m[i].role = "user" => m[i].content # last.content
            /\ last.content =
                  <<"Case document excerpts for context:\n">>
                  \o (IF chunks = <<>> THEN <<NoExcerptsSentence>>
                      ELSE Concat([i \in DOMAIN chunks |-> ExcerptBlock(i)]))
                  \o <<"\n\nQuestion: ", question, "\n\n",
                       "Answer strictly from the excerpts above. Cite sources explicitly.">>
            /\ history = <<>> => <<m[1].role, m[2].role>> = <<"system", "user">>

C22_Witness ==
    /\ Len(sent) = 1
    /\ Len(history) = 2
    /\ Len(chunks) = 2
    /\ Len(sent[1]) = 4
    /\ sent[1][3].role = "assistant"
    /\ chunks[1].citation # chunks[2].citation

\* the distinct citation labels of the chunks from rank i on, each at its
\* first occurrence
RECURSIVE FirstOccurrences(_, _)
FirstOccurrences(cs, i) ==
    IF i > Len(cs) THEN <<>>
    ELSE (IF \E j \in 1..(i - 1) : cs[j].citation = cs[i].citation THEN <<>>
          ELSE <<cs[i].citation>>)
         \o FirstOccurrences(cs, i + 1)

\* C23 as stated: in every result citations holds each distinct citation
\* label of the retrieved chunks once and nothing else, in the order of
\* their first occurrence in the ranking, and excerpts lists the retrieved
\* chunks in rank order, one record each, with its score.
C23_CitationsInRankOrder ==
    qpc = "returned" =>
        /\ result.citations = FirstOccurrences(chunks, 1)
        /\ Len(result.excerpts) = Len(chunks)
        /\ \A i \in DOMAIN chunks :
              /\ result.excerpts[i].citation = chunks[i].citation
              /\ result.excerpts[i].text = chunks[i].text
              /\ result.excerpts[i].score = chunks[i].score

\* the chunks of dout cut from page p, in the order yielded
ChunksOfPage(p) == SelectSeq(dout, LAMBDA c : c.page = <<p>>)

\* C24: a PDF is chunked page by page: every chunk holds tokens of exactly
\* one page, its page field is that page's number counted from 1, the
\* sequence numbers of a page's chunks start again at 0, the chunks come in
\* page order, and a page without text gives no chunk; a .txt/.md file is
\* chunked as one token stream with no page.
C24_ChunkedPerPage ==
    /\ dpc \in {"pages", "done"} /\ dnum > 0 =>
          /\ \A n \in DOMAIN dout :
                /\ dout[n].page \in {<<p>> : p \in 1..Len(dpages)}
                /\ dout[n].filename = dname
                /\ dout[n].text # <<>>
                /\ \A i \in DOMAIN dout[n].text :
                      \E j \in DOMAIN dpages[dout[n].page[1]] :
                         dout[n].text[i] = dpages[dout[n].page[1]][j]
                /\ n > 1 => dout[n - 1].page[1] <= dout[n].page[1]
          /\ \A p \in 1..Min(dnum - 1, Len(dpages)) :
                /\ dpages[p] = <<>> <=> ChunksOfPage(p) = <<>>
                /\ \A k \in DOMAIN ChunksOfPage(p) :
                      ChunksOfPage(p)[k].chunk_id =
                          <<dname, "::p", Digit(p), "::c", Digit(k - 1)>>
                /\ dpages[p] # <<>> =>
                      /\ csize = CHUNK_TOKENS /\ coverlap = OVERLAP_TOKENS
                      /\ Rejoined(ChunksOfPage(p), 1) = dpages[p]
    /\ dpc = "done" /\ dnum = 0 =>
          /\ \A n \in DOMAIN dout :
                /\ dout[n].page = NoPage
                /\ dout[n].filename = dname
                /\ dout[n].chunk_id = <<dname, "::c", Digit(n - 1)>>
          /\ dpages[1] = <<>> <=> dout = <<>>
          /\ Rejoined(dout, 1) = dpages[1]

C24_Witness ==
    /\ dpc = "done"
    /\ Len(dpages) = 3
    /\ Len(dpages[1]) = 4
    /\ dpages[2] = <<>>
    /\ Len(dpages[3]) = 4
    /\ Len(dout) = 4
    /\ dout[3].chunk_id = <<"b.pdf", "::p", "3", "::c", "0">>
    /\ dout[2].chunk_id = <<"b.pdf", "::p", "1", "::c", "1">>

\* the number of batches of n chunks: ceil(n / bsize)
BatchCount(n) == (n + bsize - 1) \div bsize

\* C25: the index does not depend on the batch size: under every batch
\* size a build that completes on a non-empty store has sent every chunk's
\* text to the embedding service once, in store order, in ceil(N / batch
\* size) calls of at most batch size texts, and the metadata, the rows and
\* the count returned are those of a build with a single batch: one entry
\* and one row per chunk, in store order.
C25_BatchSizeIndependent ==
    /\ bpc \in {"loop", "savez", "write_meta", "returned"} =>
          /\ Len(Concat(bCalls)) <= Len(bchunks)
          /\ \A i \in DOMAIN Concat(bCalls) : Concat(bCalls)[i] = bchunks[i].text
          /\ \A n \in DOMAIN bCalls :
                /\ Len(bCalls[n]) <= bsize
                /\ n < BatchCount(Len(bchunks)) => Len(bCalls[n]) = bsize
          /\ Len(bCalls) <= BatchCount(Len(bchunks))
    /\ (bpc = "returned" /\ bchunks # <<>>) =>
          /\ Concat(bCalls) = Texts(bchunks)
          /\ Len(bCalls) = BatchCount(Len(bchunks))
          /\ metaFile.data = [n \in DOMAIN bchunks |-> MetaOf(bchunks[n])]
          /\ Len(embFile.data) = Len(bchunks)
          /\ embFile.data = AsFloat32(Concat(bAnswers))
          /\ bret = Len(bchunks)

C25_Witness ==
    /\ bpc = "returned"
    /\ bsize = 1
    /\ Len(bchunks) = 3
    /\ Len(bCalls) = 3
    /\ bAnswers[1] # bAnswers[2]

\* C26: in every retrieval result the display title is the table's title
\* when the entry's filename is a key of SOURCE_META and the filename
\* itself otherwise, the source URL being the table's or empty; the
\* citation label is [<title>] for an entry without a page and
\* [<title> p.<page>] for one with a page.
C26_TitleAndCitation ==
    RetrieveReturned =>
        \A i \in DOMAIN chunks :
            LET c == chunks[i]
                listed == c.filename \in {"a.txt"}
                title == IF listed THEN "Agent Suite Launch" ELSE c.filename
            IN  /\ c.source_title = title
                /\ c.source_url = (IF listed THEN "https://a" ELSE "")
                /\ c.citation = (IF c.page = NoPage THEN <<"[", title, "]">>
                                 ELSE <<"[", title, " p.", Digit(c.page[1]), "]">>)
                /\ \E n \in DOMAIN lmeta :
                      /\ c.filename = lmeta[n].filename
                      /\ c.page = lmeta[n].page
                      /\ c.chunk_id = lmeta[n].chunk_id

\* a listed file and an unlisted one, both without pages
C26_Witness ==
    /\ qpc = "retrieved"
    /\ Len(chunks) = 3
    /\ \E i, j \in DOMAIN chunks :
          /\ chunks[i].citation = <<"[", "Agent Suite Launch", "]">>
          /\ chunks[j].citation = <<"[", "d.md", "]">>
          /\ chunks[j].source_url = ""

\* the last n elements of a sequence
LastOf(s, n) == SubSeq(s, Len(s) - n + 1, Len(s))

\* C27: with 0 <= overlap < chunk size every call of _chunk_text comes to
\* its end; each pass moves the window forward; no chunk is empty; every
\* chunk after the first begins with the last `overlap` tokens of its
\* predecessor and goes on beyond them, so consecutive chunks share
\* exactly `overlap` tokens and none lies within the one before.
C27_TerminatesWithProgress ==
    /\ []((coverlap < csize /\ cpc \in {"loop", "done"}) =>
            /\ Len(cout) <= Len(ctokens)
            /\ \A k \in DOMAIN cout :
                  /\ cout[k].text # <<>>
                  /\ k > 1 =>
                        /\ Len(cout[k - 1].text) = csize
                        /\ Len(cout[k].text) > coverlap
                        /\ SubSeq(cout[k].text, 1, coverlap)
                              = LastOf(cout[k - 1].text, coverlap)
                        /\ WindowEnd(k - 1) > WindowEnd(k - 2)
                        /\ WindowStart(k - 1) = WindowEnd(k - 2) - coverlap)
    /\ [][(coverlap < csize /\ cpc = "loop" /\ cpc' = "loop") => cstart' > cstart]_vars
    /\ ((coverlap < csize /\ cpc = "loop") ~> (cpc = "done"))

C27_Witness ==
    /\ cpc = "done"
    /\ csize = CHUNK_TOKENS
    /\ coverlap = OVERLAP_TOKENS
    /\ Len(ctokens) = 5
    /\ Len(cout) = 2
    /\ cout[2].text[1] = cout[1].text[3]

\* the messages of a sequence that hold the piece q
Mentioning(msgs, q) == {i \in DOMAIN msgs : \E j \in DOMAIN msgs[i].content : msgs[i].content[j] = q}

\* C28: in the multi-turn page, whatever was typed, clicked, failed or
\* cleared before, chat_history alternates from a user turn; the history
\* handed to answer_question is the turns before the question, role and
\* content each; and the chat request is the system message, those turns
\* and then the question, which it holds as its last message and, when no
\* earlier turn asked the same, in no other.
C28_HistoryIsTheTurnsBefore ==
    (page = "6_QA_Chat") =>
        /\ Alternating(chat_history)
        /\ (hpc = "handling" /\ qpc # "idle") =>
              LET n == Len(chat_history)
              IN  /\ n % 2 = 1
                  /\ question = chat_history[n].content[1]
                  /\ Len(history) = n - 1
                  /\ \A i \in DOMAIN history :
                        /\ i < n
                        /\ history[i] = [role |-> chat_history[i].role,
                                         content |-> chat_history[i].content]
                  /\ sent # <<>> =>
                        LET msgs == sent[1]
                        IN  /\ Len(msgs) = n + 1
                            /\ msgs[1].role = "system"
                            /\ \A i \in 1..(n - 1) :
                                  /\ i + 1 <= Len(msgs)
                                  /\ msgs[i + 1].role = chat_history[i].role
                                  /\ msgs[i + 1].content = chat_history[i].content
                            /\ msgs[Len(msgs)].role = "user"
                            /\ Len(msgs) \in Mentioning(msgs, question)
                            /\ (\A i \in 1..(n - 1) : chat_history[i].content # <<question>>)
                                  => Mentioning(msgs, question) = {Len(msgs)}

C28_Witness ==
    /\ page = "6_QA_Chat"
    /\ hpc = "handling"
    /\ sent # <<>>
    /\ Len(chat_history) = 3
    /\ chat_history[1].content = <<"s1">>
    /\ chat_history[2].content = <<"Error running Q&A: ", "chat request failed">>
    /\ question = "q1"
    /\ Mentioning(sent[1], "q1") = {4}

\* no value stands at two places of a sequence
Distinct(s) == \A i, j \in DOMAIN s : s[i] = s[j] => i = j

\* C29: the chunk ids of the store written by ingest_all are pairwise
\* distinct, across the files of the directory, the pages of a PDF and the
\* chunks of a page, at every point of the run and after it; so are the
\* ids of the chunks a build has read, of the metadata it gathers and of
\* the metadata file it writes.
C29_ChunkIdsDistinct ==
    /\ nIngest > 0 =>
          /\ Distinct(ChunkIds(LoadChunks(chunksFile)))
          /\ \A i, j \in DOMAIN chunksFile.data :
                LET a == Loads(chunksFile.data[i])
                    b == Loads(chunksFile.data[j])
                IN  (i # j /\ a.filename = b.filename /\ a.page = b.page)
                       => a.chunk_id[Len(a.chunk_id)] # b.chunk_id[Len(b.chunk_id)]
    /\ bpc # "idle" => (Distinct(ChunkIds(bchunks)) /\ Distinct(ChunkIds(meta)))
    /\ metaGen > 0 => Distinct(ChunkIds(metaFile.data))

C29_Witness ==
    /\ ipc = "idle"
    /\ bpc = "returned"
    /\ rawDir = {2, 3}
    /\ metaGen > 0
    /\ ChunkIds(metaFile.data) = << <<"b.pdf", "::p", "1", "::c", "0">>,
                                    <<"b.pdf", "::p", "3", "::c", "0">> >>
    /\ ChunkIds(LoadChunks(chunksFile)) = ChunkIds(metaFile.data)

\* C30 as stated: when ingest_all fails part-way, the chunk store is the
\* one the run before it left, neither emptied nor partly rewritten.
C30_FailedIngestKeepsStore ==
    (ipc = "raised" /\ runs # <<>>) => chunksFile = runs[Len(runs)].store

====
